---- MODULE Spec2Model ----
(***************************************************************************)
(* A model of SzDatabase (src/sz_tools/_sz_database.py): the URI parser,   *)
(* driver resolution, connect, statement routing and cache, the cursor     *)
(* fetch operations and the process-shared teardown notice of close().     *)
(*                                                                         *)
(* Text is modelled as a sequence of atoms.  An atom is a run of           *)
(* characters that no operation of the program splits; every delimiter     *)
(* the program looks for (":", "//", "@", "/", "?", "&", "=", " ") is an   *)
(* atom of its own, so that splitting, searching and replacing are          *)
(* computed as the code computes them.                                      *)
(***************************************************************************)
EXTENDS Integers, Sequences, FiniteSets, TLC

\* ------------------------------------------------------------------ bounds
NumProcs == 2
MaxRows == 2
MaxCols == 2
MaxMissing == 2

\* ------------------------------------------------------------ Python values
\* None, and the absence of a key in a dict, as text that no input holds.
None == <<"#None">>
Unset == <<"#Unset">>

Falsy(s) == s = None \/ s = <<>>

\* The value v under the name the body gives it: a local variable of the code.
With(v, Body(_)) == Body(v)

\* ------------------------------------------------------------ text helpers
\* str.upper() / str.lower() on an atom: the atoms of the model that have
\* letters of the other case.
UpperTab ==
  [a \in {"postgresql", "aurorapostgresql", "mysql", "mssql", "oci",
          "sqlite3", "db2", "from", "join", "customers", "Schema",
          "select", "id", "Id", "name"} |->
     CASE a = "postgresql" -> "POSTGRESQL"
       [] a = "aurorapostgresql" -> "AURORAPOSTGRESQL"
       [] a = "mysql" -> "MYSQL"
       [] a = "mssql" -> "MSSQL"
       [] a = "oci" -> "OCI"
       [] a = "sqlite3" -> "SQLITE3"
       [] a = "db2" -> "DB2"
       [] a = "from" -> "FROM"
       [] a = "join" -> "JOIN"
       [] a = "customers" -> "CUSTOMERS"
       [] a = "Schema" -> "SCHEMA"
       [] a = "select" -> "SELECT"
       [] a = "id" -> "ID"
       [] a = "Id" -> "ID"
       [] a = "name" -> "NAME"]

LowerTab ==
  [a \in {"POSTGRESQL", "HOST", "Schema", "IAM_AUTH", "True", "TRUE",
          "Region", "FROM", "JOIN", "CUSTOMERS", "REFERENCE", "SELECT",
          "MyDSN", "Table"} |->
     CASE a = "POSTGRESQL" -> "postgresql"
       [] a = "HOST" -> "host"
       [] a = "Schema" -> "schema"
       [] a = "IAM_AUTH" -> "iam_auth"
       [] a = "True" -> "true"
       [] a = "TRUE" -> "true"
       [] a = "Region" -> "region"
       [] a = "FROM" -> "from"
       [] a = "JOIN" -> "join"
       [] a = "CUSTOMERS" -> "customers"
       [] a = "REFERENCE" -> "reference"
       [] a = "SELECT" -> "select"
       [] a = "MyDSN" -> "mydsn"
       [] a = "Table" -> "table"]

UpperAtom(a) == IF a \in DOMAIN UpperTab THEN UpperTab[a] ELSE a
LowerAtom(a) == IF a \in DOMAIN LowerTab THEN LowerTab[a] ELSE a

upper(s) == [i \in 1..Len(s) |-> UpperAtom(s[i])]
lower(s) == [i \in 1..Len(s) |-> LowerAtom(s[i])]

\* urllib.parse.unquote on an atom: percent-escapes decoded.
UnquoteTab ==
  [a \in {"u%40x", "p%40w"} |->
     CASE a = "u%40x" -> "u@x"
       [] a = "p%40w" -> "p@w"]

unquote(s) ==
  [i \in 1..Len(s) |-> IF s[i] \in DOMAIN UnquoteTab THEN UnquoteTab[s[i]] ELSE s[i]]

\* The first place of an atom of T in s, 0 when there is none.
FirstIdx(s, T) ==
  IF \E i \in 1..Len(s) : s[i] \in T
  THEN CHOOSE i \in 1..Len(s) : s[i] \in T /\ \A j \in 1..(i - 1) : s[j] \notin T
  ELSE 0

LastIdx(s, T) ==
  IF \E i \in 1..Len(s) : s[i] \in T
  THEN CHOOSE i \in 1..Len(s) : s[i] \in T /\ \A j \in (i + 1)..Len(s) : s[j] \notin T
  ELSE 0

Tail_(s, i) == SubSeq(s, i, Len(s))

\* str.split(d): the pieces between the occurrences of the delimiter atom d.
RECURSIVE split(_, _)
split(s, d) ==
  LET i == FirstIdx(s, {d})
  IN IF i = 0 THEN <<s>>
     ELSE <<SubSeq(s, 1, i - 1)>> \o split(Tail_(s, i + 1), d)

\* str.split(d, 1): at most one cut.
split1(s, d) ==
  LET i == FirstIdx(s, {d})
  IN IF i = 0 THEN <<s>> ELSE <<SubSeq(s, 1, i - 1), Tail_(s, i + 1)>>

\* The places where "://" starts: a ":" atom followed by a "//" atom.
SchemeSepIdx(s) == {i \in 1..(Len(s) - 1) : s[i] = ":" /\ s[i + 1] = "//"}

\* ------------------------------------------------------- urllib.parse model
\* urlparse(uri).scheme/netloc/path/query for a URI <scheme>://<netloc><path>?<query>.
urlparse(uri) ==
  With(FirstIdx(uri, {":"}), LAMBDA c :
  With(IF c = 0 THEN uri ELSE Tail_(uri, c + 1), LAMBDA rest :
  With(Len(rest) >= 1 /\ rest[1] = "//", LAMBDA hasNet :
  With(IF hasNet THEN Tail_(rest, 2) ELSE rest, LAMBDA afterNet :
  With(FirstIdx(afterNet, {"/", "?"}), LAMBDA e :
  With(IF ~hasNet THEN afterNet
       ELSE IF e = 0 THEN <<>> ELSE Tail_(afterNet, e), LAMBDA tail :
  With(FirstIdx(tail, {"?"}), LAMBDA q :
    [scheme |-> IF c = 0 THEN <<>> ELSE lower(SubSeq(uri, 1, c - 1)),
     netloc |-> IF ~hasNet THEN <<>>
                ELSE IF e = 0 THEN afterNet ELSE SubSeq(afterNet, 1, e - 1),
     path |-> IF q = 0 THEN tail ELSE SubSeq(tail, 1, q - 1),
     query |-> IF q = 0 THEN <<>> ELSE Tail_(tail, q + 1)])))))))

\* ParseResult.hostname: the text after the last "@" up to the first ":",
\* lowercased; None when empty.
hostname(netloc) ==
  LET a == LastIdx(netloc, {"@"})
      hostinfo == IF a = 0 THEN netloc ELSE Tail_(netloc, a + 1)
      h == lower(split1(hostinfo, ":")[1])
  IN IF h = <<>> THEN None ELSE h

\* ParseResult.username / .password: from the text before the last "@".
userinfo(netloc) ==
  LET a == LastIdx(netloc, {"@"})
  IN IF a = 0 THEN None ELSE SubSeq(netloc, 1, a - 1)

username(netloc) ==
  With(userinfo(netloc), LAMBDA ui :
    IF ui = None THEN None ELSE split1(ui, ":")[1])

password(netloc) ==
  With(userinfo(netloc), LAMBDA ui :
    IF ui = None THEN None
    ELSE With(split1(ui, ":"), LAMBDA p : IF Len(p) = 2 THEN p[2] ELSE None))

\* parse_qs(query): the fields "k=v" in order, a field without "=" or with an
\* empty value dropped, the values of a repeated key gathered under its first
\* occurrence.  A sequence of [k, v] with v the list of the key's values.
RECURSIVE qs_add(_, _, _)
qs_add(d, k, v) ==
  IF d = <<>> THEN <<[k |-> k, v |-> <<v>>]>>
  ELSE IF d[1].k = k THEN <<[k |-> k, v |-> Append(d[1].v, v)]>> \o Tail(d)
  ELSE <<d[1]>> \o qs_add(Tail(d), k, v)

RECURSIVE qs_fields(_, _)
qs_fields(fields, d) ==
  IF fields = <<>> THEN d
  ELSE LET nv == split1(fields[1], "=")
       IN IF Len(nv) = 2 /\ nv[2] # <<>>
          THEN qs_fields(Tail(fields), qs_add(d, unquote(nv[1]), unquote(nv[2])))
          ELSE qs_fields(Tail(fields), d)

parse_qs(query) == qs_fields(split(query, "&"), <<>>)

\* dict.pop(key) and dict.get(key) on such a list.
dict_pop(d, k) == SelectSeq(d, LAMBDA e : e.k # k)
dict_has(d, k) == \E i \in 1..Len(d) : d[i].k = k
dict_get(d, k) == (CHOOSE e \in {d[i] : i \in 1..Len(d)} : e.k = k).v

\* ------------------------------------------------------------ dburi_parse
SUPPORTED_DBS == {<<"AURORAPOSTGRESQL">>, <<"MSSQL">>, <<"MYSQL">>, <<"OCI">>,
                  <<"POSTGRESQL">>, <<"SQLITE3">>}

\* self.connections[node] = {}: a dict with no key.  has is the set of its
\* keys; reading a key that is not in has is a KeyError.
EmptyConn ==
  [has |-> {}, dbtype |-> None, dsn |-> None, host |-> None, port |-> None,
   userid |-> None, password |-> None, table |-> None, schema |-> None,
   iam_auth |-> "None", region |-> None, query_params |-> <<>>,
   dbo |-> [drv |-> "none", state |-> "none", released |-> 0]]

\* The loop over the query keys: the reserved keys are recorded in uri_dict
\* and popped from the dict that is forwarded to the drivers.
RECURSIVE collect_params(_, _)
collect_params(items, u) ==
  IF items = <<>> THEN u
  ELSE LET query_key == items[1].k
           query_key_lower == lower(query_key)
           last_query_value == items[1].v[Len(items[1].v)]
           reserved == query_key_lower \in {<<"table">>, <<"schema">>,
                                            <<"iam_auth">>, <<"region">>}
           u1 == [u EXCEPT
                    !.TABLE = IF query_key_lower = <<"table">>
                              THEN last_query_value ELSE @,
                    !.SCHEMA = IF query_key_lower = <<"schema">>
                               THEN last_query_value ELSE @,
                    !.IAM_AUTH = IF query_key_lower = <<"iam_auth">>
                                 THEN (IF lower(last_query_value) = <<"true">>
                                       THEN "True" ELSE "False")
                                 ELSE @,
                    !.REGION = IF query_key_lower = <<"region">>
                               THEN last_query_value ELSE @,
                    !.QUERY_PARAMS = IF reserved THEN dict_pop(@, query_key) ELSE @]
       IN collect_params(Tail(items), u1)

\* The body of the try block: the uri_dict it builds, with err the exception
\* that left it ("IndexError" is the one the except clause turns into the
\* "Failed to parse connection URI" exception).
uri_dict_of(db_uri) ==
  With(urlparse(db_uri), LAMBDA p :
  With(parse_qs(p.query), LAMBDA db_uri_query_dict :
  With(split(p.netloc, ":"), LAMBDA netloc_split :
  With(collect_params(db_uri_query_dict,
         [TABLE |-> None, SCHEMA |-> None, PORT |-> None, IAM_AUTH |-> "None",
          REGION |-> None, DBTYPE |-> upper(p.scheme),
          HOST |-> hostname(p.netloc), PASSWORD |-> password(p.netloc),
          USERID |-> username(p.netloc),
          QUERY_PARAMS |-> db_uri_query_dict, DSN |-> Unset, err |-> "none"]),
       LAMBDA u1 :
  With(IF u1.DBTYPE = <<"SQLITE3">> THEN [u1 EXCEPT !.DSN = p.path] ELSE u1,
       LAMBDA u2 :
  With(IF u2.DBTYPE \in {<<"AURORAPOSTGRESQL">>, <<"POSTGRESQL">>}
       THEN IF Len(netloc_split) < 4
            THEN IF Len(netloc_split) < 3 THEN [u2 EXCEPT !.err = "IndexError"]
                 ELSE [u2 EXCEPT !.DSN = netloc_split[3], !.PORT = netloc_split[2]]
            ELSE [u2 EXCEPT !.DSN = netloc_split[4], !.PORT = netloc_split[3]]
       ELSE u2,
       LAMBDA u3 :
  With(IF u3.err = "none" /\ u3.DBTYPE = <<"MYSQL">>
       THEN IF Len(netloc_split) < 3
            THEN [u3 EXCEPT !.DSN = u3.SCHEMA, !.err = "IndexError"]
            ELSE [u3 EXCEPT !.DSN = u3.SCHEMA, !.PORT = netloc_split[3]]
       ELSE u3,
       LAMBDA u4 :
    IF u4.err = "none" /\ u4.DBTYPE = <<"MSSQL">>
    THEN IF Len(netloc_split) < 4 THEN [u4 EXCEPT !.DSN = u4.HOST]
         ELSE [u4 EXCEPT !.DSN = netloc_split[4], !.PORT = netloc_split[3]]
    ELSE u4)))))))

\* dburi_parse with the schema of a SQLITE3 URI refused by the parser itself.
dburi_parse_schema_refused(conn, db_uri) ==
  With(uri_dict_of(db_uri), LAMBDA u :
    IF u.DBTYPE = <<"SQLITE3">> /\ ~Falsy(u.SCHEMA)
    THEN [err |-> "Exception: SQLITE3 doesn't support schema URI argument", conn |-> conn]
    ELSE IF u.err = "IndexError"
    THEN [err |-> "Exception: Failed to parse connection URI", conn |-> conn]
    ELSE IF u.DSN = Unset THEN [err |-> "KeyError: DSN", conn |-> conn]
    ELSE IF Falsy(u.DSN) THEN [err |-> "Exception: Missing database DSN", conn |-> conn]
    ELSE With([conn EXCEPT !.has = @ \cup {"dbtype", "dsn", "host", "port"},
                           !.dbtype = u.DBTYPE, !.dsn = u.DSN, !.host = u.HOST,
                           !.port = u.PORT],
              LAMBDA c4 :
      IF u.USERID = None THEN [err |-> "TypeError: unquote(None)", conn |-> c4]
      ELSE [err |-> "none",
            conn |-> [c4 EXCEPT
                        !.has = @ \cup {"userid", "password", "table", "schema",
                                        "iam_auth", "region", "query_params"},
                        !.userid = unquote(u.USERID),
                        !.password = IF Falsy(u.PASSWORD) THEN None
                                     ELSE unquote(u.PASSWORD),
                        !.table = u.TABLE, !.schema = u.SCHEMA,
                        !.iam_auth = u.IAM_AUTH, !.region = u.REGION,
                        !.query_params = u.QUERY_PARAMS]]))

\* dburi_parse(node, db_uri) on the node's dict conn: the dict afterwards and
\* the exception raised ("none": it returned).
dburi_parse(conn, db_uri) ==
  With(uri_dict_of(db_uri), LAMBDA u :
    IF u.err = "IndexError"
    THEN [err |-> "Exception: Failed to parse connection URI", conn |-> conn]
    ELSE IF u.DSN = Unset THEN [err |-> "KeyError: DSN", conn |-> conn]
    ELSE IF Falsy(u.DSN) THEN [err |-> "Exception: Missing database DSN", conn |-> conn]
    ELSE With([conn EXCEPT !.has = @ \cup {"dbtype", "dsn", "host", "port"},
                           !.dbtype = u.DBTYPE, !.dsn = u.DSN, !.host = u.HOST,
                           !.port = u.PORT],
              LAMBDA c4 :
      IF u.USERID = None THEN [err |-> "TypeError: unquote(None)", conn |-> c4]
      ELSE [err |-> "none",
            conn |-> [c4 EXCEPT
                        !.has = @ \cup {"userid", "password", "table", "schema",
                                        "iam_auth", "region", "query_params"},
                        !.userid = unquote(u.USERID),
                        !.password = IF Falsy(u.PASSWORD) THEN None
                                     ELSE unquote(u.PASSWORD),
                        !.table = u.TABLE, !.schema = u.SCHEMA,
                        !.iam_auth = u.IAM_AUTH, !.region = u.REGION,
                        !.query_params = u.QUERY_PARAMS]]))

\* ---------------------------------------------------------------- imports
Modules == {"aws_wrapper", "psycopg", "psycopg2", "pyodbc", "mssql",
            "cx_oracle", "sqlite3"}

\* "iam_auth=true" in connection_string.lower(): a substring test, so a key
\* that ends with iam_auth and a value that starts with true match too.
EndsWithIamAuth == {"iam_auth", "xiam_auth"}
StartsWithTrue == {"true", "truex"}

has_iam_auth_true(connection_string) ==
  LET l == lower(connection_string)
  IN \E i \in 1..(Len(l) - 2) :
        l[i] \in EndsWithIamAuth /\ l[i + 1] = "=" /\ l[i + 2] \in StartsWithTrue

\* len(connection_string.split(":"))
connection_string_len(connection_string) == Len(split(connection_string, ":"))

\* imports(db_type, node): imported is the set of modules whose import_* call
\* set its imported_* flag, attempted the modules whose import was tried,
\* reported the attempted modules whose import error the raised failure names
\* (printed before the raise, or in the ImportError's message).
imports(db_type, connection_string, installed, print_import_messages) ==
  LET try(ms) == ms \cap installed
  IN
  IF db_type = <<"POSTGRESQL">> THEN
    LET att == IF "psycopg2" \in installed THEN {"psycopg2"} ELSE {"psycopg2", "pyodbc"}
        imp == try(att)
    IN IF "psycopg2" \notin imp /\ "pyodbc" \notin imp
       THEN [err |-> "ImportError", imported |-> imp, attempted |-> att,
             reported |-> IF print_import_messages THEN {"psycopg2", "pyodbc"} ELSE {}]
       ELSE [err |-> "none", imported |-> imp, attempted |-> att, reported |-> {}]
  ELSE IF db_type = <<"AURORAPOSTGRESQL">> THEN
    IF has_iam_auth_true(connection_string)
    THEN LET att == IF "aws_wrapper" \in installed THEN {"aws_wrapper", "psycopg"}
                    ELSE {"aws_wrapper"}
             imp == try(att)
         IN IF "aws_wrapper" \notin imp \/ "psycopg" \notin imp
            THEN [err |-> "ImportError", imported |-> imp, attempted |-> att,
                  reported |-> {"aws_wrapper", "psycopg"}]
            ELSE [err |-> "none", imported |-> imp, attempted |-> att, reported |-> {}]
    ELSE LET imp == try({"psycopg2"})
         IN IF "psycopg2" \notin imp
            THEN [err |-> "ImportError", imported |-> imp, attempted |-> {"psycopg2"},
                  reported |-> {"psycopg2"}]
            ELSE [err |-> "none", imported |-> imp, attempted |-> {"psycopg2"},
                  reported |-> {}]
  ELSE IF db_type = <<"MSSQL">> THEN
    LET att == {"mssql", "pyodbc"}
        imp == try(att)
        n == connection_string_len(connection_string)
    IN IF "mssql" \notin imp /\ "pyodbc" \notin imp
       THEN [err |-> "ImportError", imported |-> imp, attempted |-> att,
             reported |-> {"mssql", "pyodbc"}]
       ELSE IF n <= 3 /\ "pyodbc" \notin imp
       THEN [err |-> "ImportError", imported |-> imp, attempted |-> att,
             reported |-> {"pyodbc"}]
       ELSE IF n > 3 /\ "mssql" \notin imp
       THEN [err |-> "ImportError", imported |-> imp, attempted |-> att,
             reported |-> {"mssql"}]
       ELSE [err |-> "none", imported |-> imp, attempted |-> att, reported |-> {}]
  ELSE IF db_type = <<"MYSQL">> THEN
    LET imp == try({"pyodbc"})
    IN IF "pyodbc" \notin imp
       THEN [err |-> "ImportError", imported |-> imp, attempted |-> {"pyodbc"},
             reported |-> {"pyodbc"}]
       ELSE [err |-> "none", imported |-> imp, attempted |-> {"pyodbc"}, reported |-> {}]
  ELSE IF db_type = <<"OCI">> THEN
    LET imp == try({"cx_oracle"})
    IN IF "cx_oracle" \notin imp
       THEN [err |-> "ImportError", imported |-> imp, attempted |-> {"cx_oracle"},
             reported |-> {"cx_oracle"}]
       ELSE [err |-> "none", imported |-> imp, attempted |-> {"cx_oracle"},
             reported |-> {}]
  ELSE IF db_type = <<"SQLITE3">> THEN
    LET imp == try({"sqlite3"})
    IN IF "sqlite3" \notin imp
       THEN [err |-> "ImportError", imported |-> imp, attempted |-> {"sqlite3"},
             reported |-> {"sqlite3"}]
       ELSE [err |-> "none", imported |-> imp, attempted |-> {"sqlite3"}, reported |-> {}]
  ELSE [err |-> "none", imported |-> {}, attempted |-> {}, reported |-> {}]

\* ---------------------------------------------------------------- routing
\* sql.split(): the words between runs of blanks.
words(sql) == SelectSeq(split(sql, " "), LAMBDA w : w # <<>>)

\* tables_in_query: the word after each FROM or JOIN.  tokens[i] past the end
\* (no word at all, or FROM/JOIN as the last word) is an IndexError.
RECURSIVE tables_scan(_, _, _)
tables_scan(tokens, i, result) ==
  IF i > Len(tokens) THEN [err |-> "IndexError", tables |-> result]
  ELSE IF upper(tokens[i]) \in {<<"FROM">>, <<"JOIN">>}
  THEN IF i + 1 > Len(tokens) THEN [err |-> "IndexError", tables |-> result]
       ELSE IF i + 2 > Len(tokens)
       THEN [err |-> "none", tables |-> Append(result, tokens[i + 1])]
       ELSE tables_scan(tokens, i + 2, Append(result, tokens[i + 1]))
  ELSE IF i + 1 > Len(tokens) THEN [err |-> "none", tables |-> result]
       ELSE tables_scan(tokens, i + 1, result)

tables_in_query(sql) == tables_scan(words(sql), 1, <<>>)

\* tables_by_connection.get(table.upper(), "MAIN")
node_of_table(tables_by_connection, table) ==
  IF upper(table) \in DOMAIN tables_by_connection
  THEN tables_by_connection[upper(table)] ELSE "MAIN"

node_list_of(tables_by_connection, tables) ==
  [i \in 1..Len(tables) |-> node_of_table(tables_by_connection, tables[i])]

\* set_node without the check that the tables are on one node: the node of
\* the first table.
set_node_first_table(self, sql) ==
  IF Cardinality(DOMAIN self.connections) = 1 THEN [err |-> "none", node |-> "MAIN"]
  ELSE With(tables_in_query(sql), LAMBDA t :
       With(node_list_of(self.tables_by_connection, t.tables), LAMBDA node_list :
         IF t.err # "none" THEN [err |-> t.err, node |-> "MAIN"]
         ELSE IF Len(node_list) = 0
         THEN [err |-> "Exception: Could not determine tables", node |-> "MAIN"]
         ELSE IF FALSE
         THEN [err |-> "Exception: Cannot query across nodes", node |-> "MAIN"]
         ELSE [err |-> "none", node |-> node_list[1]]))

\* set_node without the check that some table was found: MAIN.
set_node_default_main(self, sql) ==
  IF Cardinality(DOMAIN self.connections) = 1 THEN [err |-> "none", node |-> "MAIN"]
  ELSE With(tables_in_query(sql), LAMBDA t :
       With(node_list_of(self.tables_by_connection, t.tables), LAMBDA node_list :
         IF t.err # "none" THEN [err |-> t.err, node |-> "MAIN"]
         ELSE IF Len(node_list) = 0
         THEN [err |-> "none", node |-> "MAIN"]
         ELSE IF Cardinality({node_list[i] : i \in 1..Len(node_list)}) > 1
         THEN [err |-> "Exception: Cannot query across nodes", node |-> "MAIN"]
         ELSE [err |-> "none", node |-> node_list[1]]))

\* set_node(sql): the node, or the exception.  self is the instance's fields.
set_node(self, sql) ==
  IF Cardinality(DOMAIN self.connections) = 1 THEN [err |-> "none", node |-> "MAIN"]
  ELSE With(tables_in_query(sql), LAMBDA t :
       With(node_list_of(self.tables_by_connection, t.tables), LAMBDA node_list :
         IF t.err # "none" THEN [err |-> t.err, node |-> "MAIN"]
         ELSE IF Len(node_list) = 0
         THEN [err |-> "Exception: Could not determine tables", node |-> "MAIN"]
         ELSE IF Cardinality({node_list[i] : i \in 1..Len(node_list)}) > 1
         THEN [err |-> "Exception: Cannot query across nodes", node |-> "MAIN"]
         ELSE [err |-> "none", node |-> node_list[1]]))

\* sql.replace("?", "%s")
replace_all(sql, new) == [i \in 1..Len(sql) |-> IF sql[i] = "?" THEN new ELSE sql[i]]

\* while "?" in sql: i += 1; sql = sql.replace("?", f":{i}", 1)
RECURSIVE replace_numbered(_, _)
replace_numbered(sql, i) ==
  LET k == FirstIdx(sql, {"?"})
  IN IF k = 0 THEN sql
     ELSE replace_numbered([sql EXCEPT ![k] = ":" \o ToString(i + 1)], i + 1)

\* sql_prep(sql, return_node=True)
sql_prep(self, sql) ==
  With(set_node(self, sql), LAMBDA r :
    IF r.err # "none" THEN [err |-> r.err, sql |-> sql, node |-> r.node]
    ELSE IF \/ (/\ upper(self.main_db_type) = <<"POSTGRESQL">>
                /\ "psycopg2" \in self.imported)
            \/ upper(self.main_db_type) = <<"AURORAPOSTGRESQL">>
    THEN [err |-> "none", sql |-> replace_all(sql, "%s"), node |-> r.node]
    ELSE IF "dbtype" \notin self.connections[r.node].has
    THEN [err |-> "KeyError: dbtype", sql |-> sql, node |-> r.node]
    ELSE IF self.connections[r.node].dbtype = <<"OCI">>
    THEN [err |-> "none", sql |-> replace_numbered(sql, 0), node |-> r.node]
    ELSE [err |-> "none", sql |-> sql, node |-> r.node])

\* --------------------------------------------------------------- sql_exec
\* A call on a driver object (a connection or a cursor of a native driver).
Native(call, node, sql, params) ==
  [call |-> call, node |-> node, sql |-> sql, params |-> params]

NoParams == [kind |-> "absent", val |-> <<>>]

\* Python's truth value of param_list: None, 0 and the empty list are false.
Truthy(param_list) ==
  CASE param_list.kind = "none" -> FALSE
    [] param_list.kind = "scalar" -> param_list.val[1] # 0
    [] param_list.kind = "list" -> param_list.val # <<>>
    [] OTHER -> FALSE

\* if param_list and type(param_list) not in (list, tuple): param_list = [param_list]
wrap_params(param_list) ==
  IF Truthy(param_list) /\ param_list.kind = "scalar"
  THEN [kind |-> "list", val |-> param_list.val]
  ELSE param_list

NoCursorData ==
  [valid |-> FALSE, NAME |-> "None", ITERSIZE |-> 0, ROWS_AFFECTED |-> 0,
   has_headers |-> FALSE, COLUMN_HEADERS |-> <<>>]

NoCursor == [drv |-> "none", has_result |-> FALSE, rows |-> <<>>, pos |-> 0]

\* route that stores what sql_prep gave back even when it raised.
route_store_on_failure(self, raw_sql) ==
  IF raw_sql \in DOMAIN self.statement_cache
  THEN [err |-> "none", sql |-> self.statement_cache[raw_sql].sql,
        node |-> self.statement_cache[raw_sql].node, prep |-> 0,
        statement_cache |-> self.statement_cache]
  ELSE With(sql_prep(self, raw_sql), LAMBDA r :
      [err |-> r.err, sql |-> r.sql, node |-> r.node, prep |-> 1,
       statement_cache |->
         [k \in DOMAIN self.statement_cache \cup {raw_sql} |->
            IF k = raw_sql THEN [sql |-> r.sql, node |-> r.node]
            ELSE self.statement_cache[k]]])

\* route without the lookup: sql_prep on every call.
route_always_prep(self, raw_sql) ==
  With(sql_prep(self, raw_sql), LAMBDA r :
    [err |-> r.err, sql |-> r.sql, node |-> r.node, prep |-> 1,
     statement_cache |->
       IF r.err # "none" THEN self.statement_cache
       ELSE [k \in DOMAIN self.statement_cache \cup {raw_sql} |->
               IF k = raw_sql THEN [sql |-> r.sql, node |-> r.node]
               ELSE self.statement_cache[k]]])

\* The lookup of the statement cache, or sql_prep and the store.  prep counts
\* the calls of sql_prep (and so of set_node).
route(self, raw_sql) ==
  IF raw_sql \in DOMAIN self.statement_cache
  THEN [err |-> "none", sql |-> self.statement_cache[raw_sql].sql,
        node |-> self.statement_cache[raw_sql].node, prep |-> 0,
        statement_cache |-> self.statement_cache]
  ELSE With(sql_prep(self, raw_sql), LAMBDA r :
      [err |-> r.err, sql |-> r.sql, node |-> r.node, prep |-> 1,
       statement_cache |->
         IF r.err # "none" THEN self.statement_cache
         ELSE [k \in DOMAIN self.statement_cache \cup {raw_sql} |->
                 IF k = raw_sql THEN [sql |-> r.sql, node |-> r.node]
                 ELSE self.statement_cache[k]]])

\* sql_exec with the statement as the caller wrote it in the error.
sql_exec_raw_in_error(self, raw_sql, param_list, kwargs, outcome) ==
  With(route(self, raw_sql), LAMBDA r :
  With([self EXCEPT !.statement_cache = r.statement_cache], LAMBDA self1 :
  With([self |-> self1, err |-> r.err, err_sql |-> <<>>, native |-> <<>>,
        prep |-> r.prep, sql |-> r.sql, node |-> r.node,
        cursor_data |-> NoCursorData, cursor |-> NoCursor],
       LAMBDA raised :
  With([raised EXCEPT !.err = "Exception: sqlerror", !.err_sql = raw_sql], LAMBDA failed :
  With(Native(IF /\ kwargs.name # "None"
                 /\ upper(self.main_db_type) \in {<<"AURORAPOSTGRESQL">>, <<"POSTGRESQL">>}
                 /\ "psycopg2" \in self.imported
              THEN "cursor(name)" ELSE "cursor()", r.node, <<>>, NoParams),
       LAMBDA c_cursor :
  With(Native("execute", r.node, r.sql,
              IF Truthy(wrap_params(param_list)) THEN wrap_params(param_list)
              ELSE NoParams),
       LAMBDA c_execute :
    IF r.err # "none" THEN raised
    ELSE IF "dbo" \notin self.connections[r.node].has THEN failed
    ELSE IF self.connections[r.node].dbo.state # "open"
    THEN [failed EXCEPT !.native = <<c_cursor>>]
    ELSE IF outcome.kind = "fail" THEN [failed EXCEPT !.native = <<c_cursor, c_execute>>]
    ELSE [raised EXCEPT
            !.native = <<c_cursor, c_execute>>,
            !.cursor_data =
               [valid |-> TRUE, NAME |-> kwargs.name, ITERSIZE |-> kwargs.itersize,
                ROWS_AFFECTED |-> outcome.rowcount,
                has_headers |-> outcome.description # <<>>,
                COLUMN_HEADERS |-> [i \in 1..Len(outcome.description) |->
                                      UpperAtom(outcome.description[i])]],
            !.cursor = [drv |-> self.connections[r.node].dbo.drv,
                        has_result |-> outcome.kind = "query",
                        rows |-> outcome.rows, pos |-> 0]]))))))

\* sql_exec that takes its cursor from the connection of MAIN, whatever the node.
sql_exec_on_main(self, raw_sql, param_list, kwargs, outcome) ==
  With(route(self, raw_sql), LAMBDA r :
  With([self EXCEPT !.statement_cache = r.statement_cache], LAMBDA self1 :
  With([self |-> self1, err |-> r.err, err_sql |-> <<>>, native |-> <<>>,
        prep |-> r.prep, sql |-> r.sql, node |-> r.node,
        cursor_data |-> NoCursorData, cursor |-> NoCursor],
       LAMBDA raised :
  With([raised EXCEPT !.err = "Exception: sqlerror", !.err_sql = r.sql], LAMBDA failed :
  With(Native(IF /\ kwargs.name # "None"
                 /\ upper(self.main_db_type) \in {<<"AURORAPOSTGRESQL">>, <<"POSTGRESQL">>}
                 /\ "psycopg2" \in self.imported
              THEN "cursor(name)" ELSE "cursor()", "MAIN", <<>>, NoParams),
       LAMBDA c_cursor :
  With(Native("execute", "MAIN", r.sql,
              IF Truthy(wrap_params(param_list)) THEN wrap_params(param_list)
              ELSE NoParams),
       LAMBDA c_execute :
    IF r.err # "none" THEN raised
    ELSE IF "dbo" \notin self.connections["MAIN"].has THEN failed
    ELSE IF self.connections["MAIN"].dbo.state # "open"
    THEN [failed EXCEPT !.native = <<c_cursor>>]
    ELSE IF outcome.kind = "fail" THEN [failed EXCEPT !.native = <<c_cursor, c_execute>>]
    ELSE [raised EXCEPT
            !.native = <<c_cursor, c_execute>>,
            !.cursor_data =
               [valid |-> TRUE, NAME |-> kwargs.name, ITERSIZE |-> kwargs.itersize,
                ROWS_AFFECTED |-> outcome.rowcount,
                has_headers |-> outcome.description # <<>>,
                COLUMN_HEADERS |-> [i \in 1..Len(outcome.description) |->
                                      UpperAtom(outcome.description[i])]],
            !.cursor = [drv |-> self.connections["MAIN"].dbo.drv,
                        has_result |-> outcome.kind = "query",
                        rows |-> outcome.rows, pos |-> 0]]))))))

\* sql_exec(raw_sql, param_list, name=..., itersize=...).  outcome is what the
\* database answers to the native execute: it fails, or it runs a statement
\* with no result set, or it runs a query.
sql_exec(self, raw_sql, param_list, kwargs, outcome) ==
  With(route(self, raw_sql), LAMBDA r :
  With([self EXCEPT !.statement_cache = r.statement_cache], LAMBDA self1 :
  With([self |-> self1, err |-> r.err, err_sql |-> <<>>, native |-> <<>>,
        prep |-> r.prep, sql |-> r.sql, node |-> r.node,
        cursor_data |-> NoCursorData, cursor |-> NoCursor],
       LAMBDA raised :
  With([raised EXCEPT !.err = "Exception: sqlerror", !.err_sql = r.sql], LAMBDA failed :
  With(Native(IF /\ kwargs.name # "None"
                 /\ upper(self.main_db_type) \in {<<"AURORAPOSTGRESQL">>, <<"POSTGRESQL">>}
                 /\ "psycopg2" \in self.imported
              THEN "cursor(name)" ELSE "cursor()", r.node, <<>>, NoParams),
       LAMBDA c_cursor :
  With(Native("execute", r.node, r.sql,
              IF Truthy(wrap_params(param_list)) THEN wrap_params(param_list)
              ELSE NoParams),
       LAMBDA c_execute :
    IF r.err # "none" THEN raised
    ELSE IF "dbo" \notin self.connections[r.node].has THEN failed
    ELSE IF self.connections[r.node].dbo.state # "open"
    THEN [failed EXCEPT !.native = <<c_cursor>>]
    ELSE IF outcome.kind = "fail" THEN [failed EXCEPT !.native = <<c_cursor, c_execute>>]
    ELSE [raised EXCEPT
            !.native = <<c_cursor, c_execute>>,
            !.cursor_data =
               [valid |-> TRUE, NAME |-> kwargs.name, ITERSIZE |-> kwargs.itersize,
                ROWS_AFFECTED |-> outcome.rowcount,
                has_headers |-> outcome.description # <<>>,
                COLUMN_HEADERS |-> [i \in 1..Len(outcome.description) |->
                                      UpperAtom(outcome.description[i])]],
            !.cursor = [drv |-> self.connections[r.node].dbo.drv,
                        has_result |-> outcome.kind = "query",
                        rows |-> outcome.rows, pos |-> 0]]))))))

\* ------------------------------------------------------------------ fetch
\* type_fixed that decodes a value of type bytes as well.
type_fixed_any_binary(el) ==
  IF el.t \in {"bytearray", "bytes"} THEN [el EXCEPT !.t = "str"] ELSE el

\* el.decode("utf-8") if type(el) is bytearray else el
type_fixed(el) == IF el.t = "bytearray" THEN [el EXCEPT !.t = "str"] ELSE el

\* A bytearray that is not UTF-8 makes decode raise UnicodeDecodeError.
decodes(row_values) ==
  \A i \in 1..Len(row_values) : row_values[i].t = "bytearray" => row_values[i].ok

\* dict(list(zip(headers, row))): a key keeps the place of its first
\* occurrence and the value of its last.
RECURSIVE dict_zip(_, _, _)
dict_zip(headers, row, d) ==
  IF headers = <<>> \/ row = <<>> THEN d
  ELSE LET k == headers[1]
           d1 == IF \E i \in 1..Len(d) : d[i].k = k
                 THEN [i \in 1..Len(d) |-> IF d[i].k = k THEN [k |-> k, v |-> row[1]] ELSE d[i]]
                 ELSE Append(d, [k |-> k, v |-> row[1]])
       IN dict_zip(Tail(headers), Tail(row), d1)

row_dict(headers, row_values) ==
  dict_zip(headers, [i \in 1..Len(row_values) |-> type_fixed(row_values[i])], <<>>)

\* The native cursor's fetchone/fetchall/fetchmany(n): the rows handed out
\* and the cursor afterwards.  A cursor with no result set raises in every
\* driver but sqlite3, which answers as for an empty result set.
native_fetch(cursor, n) ==
  LET left == Len(cursor.rows) - cursor.pos
      k == IF n < left THEN n ELSE left
  IN IF ~cursor.has_result /\ cursor.drv # "sqlite3"
     THEN [err |-> "ProgrammingError", rows |-> <<>>, cursor |-> cursor]
     ELSE [err |-> "none", rows |-> SubSeq(cursor.rows, cursor.pos + 1, cursor.pos + k),
           cursor |-> [cursor EXCEPT !.pos = @ + k]]

FetchResult(err, ret, native, cursor) ==
  [err |-> err, ret |-> ret, native |-> native, cursor |-> cursor]

\* The rows as dicts, or the UnicodeDecodeError of the first row that has one.
rows_as_dicts(cursor_data, f, call) ==
  IF f.err # "none" THEN FetchResult(f.err, <<>>, <<call>>, f.cursor)
  ELSE IF f.rows # <<>> /\ ~cursor_data.has_headers
  THEN FetchResult("KeyError: COLUMN_HEADERS", <<>>, <<call>>, f.cursor)
  ELSE IF \E i \in 1..Len(f.rows) : ~decodes(f.rows[i])
  THEN FetchResult("UnicodeDecodeError", <<>>, <<call>>, f.cursor)
  ELSE FetchResult("none",
                   [i \in 1..Len(f.rows) |-> row_dict(cursor_data.COLUMN_HEADERS, f.rows[i])],
                   <<call>>, f.cursor)

\* fetch_next without the check of the column headers.
fetch_next_unchecked(cursor_data, cursor) ==
  LET f == native_fetch(cursor, 1)
      call == Native("fetchone", "", <<>>, NoParams)
  IN IF f.err = "none" /\ f.rows # <<>> /\ f.rows[1] = <<>>
     THEN FetchResult("none", <<>>, <<call>>, f.cursor)
     ELSE rows_as_dicts(cursor_data, f, call)

fetch_next(cursor_data, cursor) ==
  IF ~cursor_data.has_headers
  THEN FetchResult("Exception: Previous SQL was not a query", <<>>, <<>>, cursor)
  ELSE LET f == native_fetch(cursor, 1)
           call == Native("fetchone", "", <<>>, NoParams)
       IN IF f.err = "none" /\ f.rows # <<>> /\ f.rows[1] = <<>>
          THEN FetchResult("none", <<>>, <<call>>, f.cursor)
          ELSE rows_as_dicts(cursor_data, f, call)

fetch_row(cursor_data, cursor) ==
  IF ~cursor_data.has_headers
  THEN FetchResult("Exception: Previous SQL was not a query", <<>>, <<>>, cursor)
  ELSE LET f == native_fetch(cursor, 1)
       IN FetchResult(f.err, f.rows, <<Native("fetchone", "", <<>>, NoParams)>>, f.cursor)

fetch_all_rows(cursor_data, cursor) ==
  LET f == native_fetch(cursor, Len(cursor.rows))
  IN FetchResult(f.err, f.rows, <<Native("fetchall", "", <<>>, NoParams)>>, f.cursor)

fetch_all_dicts(cursor_data, cursor) ==
  rows_as_dicts(cursor_data, native_fetch(cursor, Len(cursor.rows)),
                Native("fetchall", "", <<>>, NoParams))

fetch_many_rows(cursor_data, cursor, row_count) ==
  LET f == native_fetch(cursor, row_count)
  IN FetchResult(f.err, f.rows, <<Native("fetchmany", "", <<>>, NoParams)>>, f.cursor)

\* fetch_many_dicts that takes no notice of row_count.
fetch_many_dicts_unbounded(cursor_data, cursor, row_count) ==
  rows_as_dicts(cursor_data, native_fetch(cursor, Len(cursor.rows)),
                Native("fetchmany", "", <<>>, NoParams))

fetch_many_dicts(cursor_data, cursor, row_count) ==
  rows_as_dicts(cursor_data, native_fetch(cursor, row_count),
                Native("fetchmany", "", <<>>, NoParams))

\* ---------------------------------------------------------------- connect
\* driver_of that takes ODBC for POSTGRESQL when psycopg2 was imported.
driver_of_postgres_odbc(self, node) ==
  LET c == self.connections[node]
  IN CASE c.dbtype = <<"AURORAPOSTGRESQL">> ->
            IF c.iam_auth = "True" THEN "aws_wrapper" ELSE "psycopg2"
       [] c.dbtype = <<"POSTGRESQL">> -> "pyodbc"
       [] c.dbtype = <<"MYSQL">> -> "pyodbc"
       [] c.dbtype = <<"MSSQL">> ->
            IF c.host # c.dsn /\ dict_has(c.query_params, <<"driver">>)
            THEN "mssql" ELSE "pyodbc"
       [] c.dbtype = <<"SQLITE3">> -> "sqlite3"
       [] c.dbtype = <<"OCI">> -> "cx_Oracle"
       [] OTHER -> "none"

\* The driver object connect() calls for the node, from the parsed
\* descriptor and the imported_* flags.  "cx_Oracle" is an attribute the
\* instance never has (__init__ sets cx_oracle).
driver_of(self, node) ==
  LET c == self.connections[node]
  IN CASE c.dbtype = <<"AURORAPOSTGRESQL">> ->
            IF c.iam_auth = "True" THEN "aws_wrapper" ELSE "psycopg2"
       [] c.dbtype = <<"POSTGRESQL">> ->
            IF "psycopg2" \in self.imported THEN "psycopg2" ELSE "pyodbc"
       [] c.dbtype = <<"MYSQL">> -> "pyodbc"
       [] c.dbtype = <<"MSSQL">> ->
            IF c.host # c.dsn /\ dict_has(c.query_params, <<"driver">>)
            THEN "mssql" ELSE "pyodbc"
       [] c.dbtype = <<"SQLITE3">> -> "sqlite3"
       [] c.dbtype = <<"OCI">> -> "cx_Oracle"
       [] OTHER -> "none"

\* The modules whose object the connect call of the driver reads: a module
\* that was not imported is None, and the call raises.
driver_needs(drv) ==
  CASE drv = "aws_wrapper" -> {"aws_wrapper", "psycopg"}
    [] drv = "cx_Oracle" -> {"cx_Oracle"}
    [] drv = "none" -> {}
    [] OTHER -> {drv}

ConnectResult(self, err, detail, native) ==
  [self |-> self, err |-> err, detail |-> detail, native |-> native]

NonQuery == [kind |-> "nonquery", rowcount |-> 0, description |-> <<>>, rows |-> <<>>]
ExecFails == [kind |-> "fail", rowcount |-> 0, description |-> <<>>, rows |-> <<>>]
NoKwargs == [name |-> "None", itersize |-> 0]
NoParamList == [kind |-> "none", val |-> <<>>]

\* The statement that applies the schema of the URI after the connect.
schema_statement(c) ==
  IF c.dbtype = <<"MYSQL">> THEN <<"use", " ">> \o c.schema
  ELSE IF c.dbtype \in {<<"AURORAPOSTGRESQL">>, <<"POSTGRESQL">>}
  THEN <<"SET", " ", "search_path", " ", "TO", " ">> \o c.schema
  ELSE <<>>

\* connect(node).  env says what the outside answers: whether the SQLite
\* file exists, whether the native connect succeeds, whether the statements
\* issued after the connect succeed.
connect(self, node, env) ==
  With(self.connections[node], LAMBDA c :
  With(driver_of(self, node), LAMBDA drv :
  With(Native("connect:" \o drv, node, <<>>, NoParams), LAMBDA c_connect :
  With([self EXCEPT
          !.connections[node].has = @ \cup {"dbo"},
          !.connections[node].dbo = [drv |-> drv, state |-> "open", released |-> 0]],
       LAMBDA opened :
  With(<<Native("cursor()", node, <<>>, NoParams),
         Native("execute", node, <<"PRAGMA", " ", "journal_mode=wal">>, NoParams),
         Native("execute", node, <<"PRAGMA", " ", "synchronous=0">>, NoParams)>>,
       LAMBDA pragmas :
    IF drv = "none" THEN ConnectResult(self, "none", "no branch", <<>>)
    ELSE IF c.dbtype = <<"SQLITE3">> /\ ~env.file_exists
    THEN ConnectResult(self, "Exception: connect", "sqlite3 database file not found", <<>>)
    ELSE IF ~(driver_needs(drv) \subseteq self.imported)
    THEN ConnectResult(self, "Exception: connect", "driver object missing", <<>>)
    ELSE IF ~env.connect_ok
    THEN ConnectResult(self, "Exception: connect", "native connect failed", <<c_connect>>)
    ELSE IF c.dbtype = <<"SQLITE3">> /\ ~env.exec_ok
    THEN ConnectResult(opened, "Exception: connect", "native execute failed",
                       <<c_connect>> \o SubSeq(pragmas, 1, 2))
    ELSE IF c.dbtype = <<"SQLITE3">> /\ c.schema # None /\ Len(c.schema) # 0
    THEN ConnectResult(opened, "Exception: SQLITE3 doesn't support schema URI argument",
                       "schema", <<c_connect>> \o pragmas)
    ELSE IF c.dbtype = <<"SQLITE3">>
    THEN ConnectResult(opened, "none", "", <<c_connect>> \o pragmas)
    ELSE IF c.schema # None /\ Len(c.schema) # 0 /\ schema_statement(c) # <<>>
    THEN With(sql_exec(opened, schema_statement(c), NoParamList, NoKwargs,
                       IF env.exec_ok THEN NonQuery ELSE ExecFails),
              LAMBDA x :
           ConnectResult(x.self, IF x.err = "none" THEN "none" ELSE "Exception: schema",
                         x.err, <<c_connect>> \o x.native))
    ELSE ConnectResult(opened, "none", "", <<c_connect>>))))))

\* ---------------------------------------------------------------- __init__
NewSelf ==
  [connections |-> [n \in {"MAIN"} |-> EmptyConn], order |-> <<"MAIN">>,
   connection_string |-> <<>>, main_db_type |-> <<>>, imported |-> {},
   statement_cache |-> <<>>, tables_by_connection |-> <<>>, success |-> FALSE]

\* for table_name in HYBRID: a node not yet in connections gets an empty
\* dict (no connect), and the table is recorded under the name as written.
RECURSIVE register_hybrid(_, _)
register_hybrid(self, hybrid) ==
  IF hybrid = <<>> THEN self
  ELSE LET table_name == hybrid[1].table
           node == hybrid[1].node
           nodes == DOMAIN self.connections
           self1 == IF node \in nodes THEN self
                    ELSE [self EXCEPT
                            !.connections = [n \in nodes \cup {node} |->
                                               IF n = node THEN EmptyConn
                                               ELSE self.connections[n]],
                            !.order = Append(@, node)]
           tbc == self1.tables_by_connection
           self2 == [self1 EXCEPT
                       !.tables_by_connection =
                          [t \in DOMAIN tbc \cup {table_name} |->
                             IF t = table_name THEN node ELSE tbc[t]]]
       IN register_hybrid(self2, Tail(hybrid))

InitResult(self, err, stage, detail, native) ==
  [self |-> self, err |-> err, stage |-> stage, detail |-> detail, native |-> native]

\* SzDatabase(engine_configuration): the instance's fields when __init__
\* returns or raises, the exception, and the stage that raised.
construct(cfg) ==
  With(cfg.connection, LAMBDA cs :
  With(SchemeSepIdx(cs), LAMBDA seps :
  With(IF seps = {} THEN <<"UNKNOWN_DB">>
       ELSE SubSeq(cs, 1, (CHOOSE i \in seps : TRUE) - 1),
       LAMBDA main_db_type :
  With([NewSelf EXCEPT !.main_db_type = main_db_type], LAMBDA s0 :
    IF ~cfg.has_sql
    THEN InitResult(NewSelf, "AttributeError: NoneType.get", "config", "", <<>>)
    ELSE IF Falsy(cs)
    THEN InitResult(NewSelf, "LookupError: connection settings missing", "config", "", <<>>)
    ELSE IF Cardinality(seps) > 1
    THEN InitResult(NewSelf, "ValueError: too many values to unpack", "config", "", <<>>)
    ELSE IF upper(main_db_type) \notin SUPPORTED_DBS
    THEN InitResult(s0, "LookupError: Unsupported database type", "config", "", <<>>)
    ELSE
  With(imports(upper(main_db_type), cs, cfg.installed, cfg.print_import_messages),
       LAMBDA imp :
  With([s0 EXCEPT !.connection_string = cs, !.imported = imp.imported], LAMBDA s2 :
    IF imp.err # "none" THEN InitResult(s2, imp.err, "imports", "", <<>>)
    ELSE
  With(dburi_parse(s2.connections["MAIN"], cs), LAMBDA prs :
  With([s2 EXCEPT !.connections["MAIN"] = prs.conn], LAMBDA s3 :
    IF prs.err # "none" THEN InitResult(s3, prs.err, "dburi_parse", "", <<>>)
    ELSE
  With(connect(s3, "MAIN", cfg), LAMBDA con :
    IF con.err # "none"
    THEN InitResult(con.self, con.err, "connect", con.detail, con.native)
    ELSE InitResult([register_hybrid(con.self, cfg.hybrid) EXCEPT !.success = TRUE],
                    "none", "done", "", con.native))))))))))

\* ------------------------------------------------------------------ close
is_aurora_iam(conn) == conn.dbtype = <<"AURORAPOSTGRESQL">> /\ conn.iam_auth = "True"

\* for node in self.connections.keys(): self.connections[node]["dbo"].close()
\* A node whose dict has no "dbo" raises KeyError and ends the loop.
RECURSIVE close_connections(_, _, _)
close_connections(self, i, native) ==
  IF i > Len(self.order) THEN [self |-> self, err |-> "none", native |-> native]
  ELSE LET node == self.order[i]
       IN IF "dbo" \notin self.connections[node].has
          THEN [self |-> self, err |-> "KeyError: dbo", native |-> native]
          ELSE close_connections(
                 [self EXCEPT !.connections[node].dbo.state = "closed"], i + 1,
                 Append(native, Native("close", node, <<>>, NoParams)))

\* for node in self.connections.keys(): release_resources() on each node
\* that is AURORAPOSTGRESQL with iam_auth.
RECURSIVE release_all(_, _, _)
release_all(self, i, native) ==
  IF i > Len(self.order) THEN [self |-> self, native |-> native]
  ELSE LET node == self.order[i]
       IN IF is_aurora_iam(self.connections[node])
          THEN release_all([self EXCEPT !.connections[node].dbo.released = @ + 1], i + 1,
                           Append(native, Native("release_resources", node, <<>>, NoParams)))
          ELSE release_all(self, i + 1, native)

\* One process in close(): pc is its place, seen what its unsynchronized
\* read of the flag returned, self its instance, native the driver calls
\* it has made.  shared is the class-level flag and lock (lock = 0: free,
\* otherwise the process holding it) and the number of notices printed.
Proc(pc, seen, self, native, err) ==
  [pc |-> pc, seen |-> seen, self |-> self, native |-> native, err |-> err]

Shared(flag, lock, printed) == [flag |-> flag, lock |-> lock, printed |-> printed]

CloseDone == {"idle", "done", "raised"}

\* A setter that can only raise the flag.
set_flag_raise_only(sh, value) == [sh EXCEPT !.flag = TRUE]

\* set_aurora_clean_up_msg_flag(value): cls._aurora_clean_up_msg_flag.value = value.
\* The class lock is not taken: the write goes through whoever holds it.
set_aurora_clean_up_msg_flag(sh, value) == [sh EXCEPT !.flag = value]

\* close() with a lock that never makes a process wait.
close_enabled_unguarded(p, pr, sh) == pr.pc \notin CloseDone

\* Whether process p can take its next step of close().
close_enabled(p, pr, sh) ==
  /\ pr.pc \notin CloseDone
  /\ pr.pc \in {"get_flag_acquire", "lock_acquire"} => sh.lock = 0

\* close() without the second check of the flag under the lock.
recheck_pc_blind(sh) == "set_flag"

\* The inner check under the lock: if not _aurora_clean_up_msg_flag.value
recheck_pc(sh) == IF sh.flag THEN "unlock" ELSE "set_flag"

\* The next step of close() of process p.
close_step(p, pr, sh) ==
  CASE pr.pc = "start" ->
         LET c == close_connections(pr.self, 1, pr.native)
             any == \E n \in DOMAIN c.self.connections : is_aurora_iam(c.self.connections[n])
         IN IF c.err # "none"
            THEN [pr |-> Proc("raised", pr.seen, c.self, c.native, c.err), sh |-> sh]
            ELSE [pr |-> Proc(IF any THEN "get_flag_acquire" ELSE "done",
                              pr.seen, c.self, c.native, "none"),
                  sh |-> sh]
    [] pr.pc = "get_flag_acquire" ->
         [pr |-> [pr EXCEPT !.pc = "get_flag_read"], sh |-> [sh EXCEPT !.lock = p]]
    [] pr.pc = "get_flag_read" ->
         [pr |-> [pr EXCEPT !.pc = "get_flag_release", !.seen = sh.flag], sh |-> sh]
    [] pr.pc = "get_flag_release" ->
         [pr |-> [pr EXCEPT !.pc = IF pr.seen THEN "release" ELSE "lock_acquire"],
          sh |-> [sh EXCEPT !.lock = 0]]
    [] pr.pc = "lock_acquire" ->
         [pr |-> [pr EXCEPT !.pc = "recheck"], sh |-> [sh EXCEPT !.lock = p]]
    [] pr.pc = "recheck" ->
         [pr |-> [pr EXCEPT !.pc = recheck_pc(sh)], sh |-> sh]
    [] pr.pc = "set_flag" ->
         [pr |-> [pr EXCEPT !.pc = "print"], sh |-> [sh EXCEPT !.flag = TRUE]]
    [] pr.pc = "print" ->
         [pr |-> [pr EXCEPT !.pc = "unlock"], sh |-> [sh EXCEPT !.printed = @ + 1]]
    [] pr.pc = "unlock" ->
         [pr |-> [pr EXCEPT !.pc = "release"], sh |-> [sh EXCEPT !.lock = 0]]
    [] pr.pc = "release" ->
         LET r == release_all(pr.self, 1, pr.native)
         IN [pr |-> Proc("done", pr.seen, r.self, r.native, "none"), sh |-> sh]
    [] OTHER -> [pr |-> pr, sh |-> sh]

\* close() run to its end by a process that no other process interleaves.
RECURSIVE close_run(_, _, _)
close_run(p, pr, sh) ==
  IF pr.pc \in CloseDone \/ ~close_enabled(p, pr, sh) THEN [pr |-> pr, sh |-> sh]
  ELSE LET n == close_step(p, pr, sh) IN close_run(p, n.pr, n.sh)

\* ----------------------------------------------------------------- inputs
\* A connection string <scheme>://<netloc><path><query>.
Uri(scheme, netloc, path, query) == <<scheme, ":", "//">> \o netloc \o path \o query

Schemes == {"postgresql", "POSTGRESQL", "aurorapostgresql", "mysql", "mssql",
            "oci", "sqlite3", "db2"}

N_full == <<"user", ":", "pw", "@", "host", ":", "5432", ":", "db">>
N_nopw == <<"user", "@", "host", ":", "5432", ":", "db">>
N_dsn == <<"user", ":", "pw", "@", "MyDSN">>
N_noport == <<"user", ":", "pw", "@", "host", ":", "db">>
N_hostport == <<"user", ":", "pw", "@", "host", ":", "3306">>
N_file == <<"na", ":", "na", "@">>
N_nouser == <<"host", ":", "5432", ":", "db">>
N_quoted == <<"u%40x", ":", "p%40w", "@", "HOST", ":", "5432", ":", "db">>
N_same == <<"user", ":", "pw", "@", "db", ":", "1433", ":", "db">>
N_none == <<>>

Netlocs == {N_full, N_nopw, N_dsn, N_noport, N_hostport, N_file, N_nouser,
            N_quoted, N_same, N_none}

Paths == {<<>>, <<"/">>, <<"/", "g2.db">>}

Q_none == <<>>
Q_schema == <<"?", "schema", "=", "s">>
Q_driver == <<"?", "driver", "=", "x", "&", "TrustServerCertificate", "=", "yes">>
Q_iam == <<"?", "iam_auth", "=", "true", "&", "region", "=", "r">>
Q_mixed == <<"?", "Schema", "=", "s", "&", "schema", "=", "t", "&", "x", "=", "1">>
Q_upper == <<"?", "IAM_AUTH", "=", "TRUE", "&", "Table", "=", "t">>
Q_truex == <<"?", "iam_auth", "=", "truex">>
Q_colon == <<"?", "x", "=", "a", ":", "b">>
Q_blank == <<"?", "schema", "=">>

Queries == {Q_none, Q_schema, Q_driver, Q_iam, Q_mixed, Q_upper, Q_truex,
            Q_colon, Q_blank}

AllUris == {Uri(sc, n, p, q) : sc \in Schemes, n \in Netlocs, p \in Paths, q \in Queries}

\* The HYBRID object of the configuration: table name -> node name, in order.
H(table, node) == [table |-> <<table>>, node |-> node]
Hybrids == {<<>>, <<H("CUSTOMERS", "NODE2")>>, <<H("customers", "NODE2")>>,
            <<H("CUSTOMERS", "MAIN")>>}

\* The sets of installed modules with at most MaxMissing of them missing.
InstalledSets == {Modules \ m : m \in {x \in SUBSET Modules : Cardinality(x) <= MaxMissing}}

\* What the outside answers during construction: everything succeeds, or the
\* SQLite file is missing, or the native connect fails, or a statement
\* issued after the connect fails.
Env(file_exists, connect_ok, exec_ok) ==
  [file_exists |-> file_exists, connect_ok |-> connect_ok, exec_ok |-> exec_ok]
AllOk == Env(TRUE, TRUE, TRUE)
Envs == {AllOk, Env(FALSE, TRUE, TRUE), Env(TRUE, FALSE, TRUE), Env(TRUE, TRUE, FALSE)}

Cfg(has_sql, connection, hybrid, installed, pim, env) ==
  [has_sql |-> has_sql, connection |-> connection, hybrid |-> hybrid,
   installed |-> installed, print_import_messages |-> pim,
   file_exists |-> env.file_exists, connect_ok |-> env.connect_ok,
   exec_ok |-> env.exec_ok]

\* Statements, as the callers of sql_exec write them.
S_one == <<"SELECT", " ", "1">>
S_cust == <<"SELECT", " ", "*", " ", "FROM", " ", "CUSTOMERS", " ", "WHERE", " ",
            "ID", " ", "=", " ", "?">>
S_lc == <<"select", " ", "*", " ", " ", "from", " ", "customers">>
S_join == <<"SELECT", " ", "*", " ", "FROM", " ", "CUSTOMERS", " ", "JOIN", " ",
            "REFERENCE">>
S_dangling == <<"SELECT", " ", "*", " ", "FROM">>
S_empty == <<>>

Statements == {S_one, S_cust, S_lc, S_join, S_dangling, S_empty}

\* The param_list arguments of sql_exec: none, a scalar (0 stands for the
\* scalars Python takes for false: 0, False, the empty string), a list.
ScalarParam(v) == [kind |-> "scalar", val |-> <<v>>]
ListParam(l) == [kind |-> "list", val |-> l]
ParamLists ==
  {NoParamList, ScalarParam(0), ScalarParam(5), ListParam(<<>>), ListParam(<<5>>),
   ListParam(<<0>>)}

\* The keyword arguments of sql_exec: none, or a named server-side cursor.
NamedCursor == [name |-> "c1", itersize |-> 10]
KwargsSet == {NoKwargs, NamedCursor}

\* What the database can answer to an execute.
ColNames == <<"id", "name", "Id">>
Values == <<[t |-> "int", v |-> "1", ok |-> TRUE],
            [t |-> "bytearray", v |-> "abc", ok |-> TRUE],
            [t |-> "str", v |-> "x", ok |-> TRUE],
            [t |-> "bytes", v |-> "raw", ok |-> TRUE],
            [t |-> "bytearray", v |-> "0xff", ok |-> FALSE]>>

Query(R, C, j, k) ==
  [kind |-> "query", rowcount |-> R,
   description |-> [c \in 1..C |-> ColNames[((c + j) % Len(ColNames)) + 1]],
   rows |-> [r \in 1..R |-> [c \in 1..C |-> Values[((r * C + c + k) % Len(Values)) + 1]]]]

ResultSets ==
  {Query(R, C, j, k) : R \in 0..MaxRows, C \in 1..MaxCols,
                       j \in 0..(Len(ColNames) - 1), k \in 0..(Len(Values) - 1)}

BasicOutcomes == {ExecFails, NonQuery}

\* ------------------------------------------------------------------ state
VARIABLES
  cfg,          \* the configuration given to the constructor, and the outside
  phase,        \* "new", "ready" (constructed), "failed" (__init__ raised), "closed"
  self,         \* the fields of the SzDatabase instance
  cursor_data,  \* the handle the last successful sql_exec returned
  cursor,       \* the native cursor of that handle
  last,         \* the last call: its arguments, what it raised or returned,
                \* the driver calls it made
  procs,        \* the processes that run close() concurrently
  shared        \* the class-level flag and lock, and the notices printed

vars == <<cfg, phase, self, cursor_data, cursor, last, procs, shared>>

NoLast ==
  [op |-> "none", raw |-> <<>>, param_list |-> NoParamList, kwargs |-> NoKwargs,
   n |-> 0, err |-> "none", err_sql |-> <<>>, stage |-> "", detail |-> "",
   native |-> <<>>, prep |-> 0, hit |-> FALSE, sql |-> <<>>, node |-> "",
   ret |-> <<>>, pos |-> 0]

IdleProcs == [p \in 1..NumProcs |-> Proc("idle", FALSE, NewSelf, <<>>, "none")]

InitWith(cfgs) ==
  /\ cfg \in cfgs
  /\ phase = "new"
  /\ self = NewSelf
  /\ cursor_data = NoCursorData
  /\ cursor = NoCursor
  /\ last = NoLast
  /\ procs = IdleProcs
  /\ shared = Shared(FALSE, 0, 0)

\* ---------------------------------------------------------------- actions
Construct ==
  /\ phase = "new"
  /\ \E r \in {construct(cfg)} :
        /\ self' = r.self
        /\ phase' = IF r.err = "none" THEN "ready" ELSE "failed"
        /\ last' = [NoLast EXCEPT !.op = "__init__", !.err = r.err, !.stage = r.stage,
                                  !.detail = r.detail, !.native = r.native]
  /\ UNCHANGED <<cfg, cursor_data, cursor, procs, shared>>

SqlExec(raw_sql, param_list, kwargs, outcome) ==
  /\ phase \in {"ready", "closed"}
  /\ \E r \in {sql_exec(self, raw_sql, param_list, kwargs, outcome)} :
        /\ self' = r.self
        /\ cursor_data' = IF r.err = "none" THEN r.cursor_data ELSE cursor_data
        /\ cursor' = IF r.err = "none" THEN r.cursor ELSE cursor
        /\ last' = [NoLast EXCEPT !.op = "sql_exec", !.raw = raw_sql,
                                  !.param_list = param_list, !.kwargs = kwargs,
                                  !.err = r.err, !.err_sql = r.err_sql,
                                  !.native = r.native, !.prep = r.prep,
                                  !.hit = raw_sql \in DOMAIN self.statement_cache,
                                  !.sql = r.sql, !.node = r.node]
  /\ UNCHANGED <<cfg, phase, procs, shared>>

Fetched(op, n, r) ==
  /\ cursor' = r.cursor
  /\ last' = [NoLast EXCEPT !.op = op, !.n = n, !.err = r.err, !.native = r.native,
                            !.ret = r.ret, !.pos = cursor.pos]
  /\ UNCHANGED <<cfg, phase, self, cursor_data, procs, shared>>

FetchNext == phase = "ready" /\ cursor_data.valid
             /\ Fetched("fetch_next", 0, fetch_next(cursor_data, cursor))

FetchRow == phase = "ready" /\ cursor_data.valid
            /\ Fetched("fetch_row", 0, fetch_row(cursor_data, cursor))

FetchAllRows == phase = "ready" /\ cursor_data.valid
                /\ Fetched("fetch_all_rows", 0, fetch_all_rows(cursor_data, cursor))

FetchAllDicts == phase = "ready" /\ cursor_data.valid
                 /\ Fetched("fetch_all_dicts", 0, fetch_all_dicts(cursor_data, cursor))

FetchManyRows(n) == phase = "ready" /\ cursor_data.valid
                    /\ Fetched("fetch_many_rows", n, fetch_many_rows(cursor_data, cursor, n))

FetchManyDicts(n) == phase = "ready" /\ cursor_data.valid
                     /\ Fetched("fetch_many_dicts", n, fetch_many_dicts(cursor_data, cursor, n))

\* close() of the instance, by a process that runs alone.
Close ==
  /\ phase = "ready"
  /\ \E r \in {close_run(0, Proc("start", FALSE, self, <<>>, "none"), shared)} :
        /\ self' = r.pr.self
        /\ shared' = r.sh
        /\ last' = [NoLast EXCEPT !.op = "close", !.err = r.pr.err, !.native = r.pr.native,
                                  !.stage = r.pr.pc]
  /\ phase' = "closed"
  /\ UNCHANGED <<cfg, cursor_data, cursor, procs>>

\* One step of close() by one of the concurrent processes.
CloseStep(p) ==
  /\ close_enabled(p, procs[p], shared)
  /\ \E n \in {close_step(p, procs[p], shared)} :
        /\ procs' = [procs EXCEPT ![p] = n.pr]
        /\ shared' = n.sh
  /\ UNCHANGED <<cfg, phase, self, cursor_data, cursor, last>>

\* A caller of the class method set_aurora_clean_up_msg_flag(value), at any
\* moment of the closes of the processes.
SetFlag(value) ==
  /\ shared' = set_aurora_clean_up_msg_flag(shared, value)
  /\ last' = [NoLast EXCEPT !.op = "set_aurora_clean_up_msg_flag",
                            !.param_list = [kind |-> "scalar",
                                            val |-> <<IF value THEN 1 ELSE 0>>]]
  /\ UNCHANGED <<cfg, phase, self, cursor_data, cursor, procs>>

\* --------------------------------------------------------- specifications
\* The life of one instance: construction, statements, close.
U_sqlite == Uri("sqlite3", N_file, <<"/", "g2.db">>, Q_none)
U_postgres == Uri("postgresql", N_full, <<"/">>, Q_none)
U_postgres_schema == Uri("postgresql", N_full, <<"/">>, Q_schema)
U_mysql == Uri("mysql", N_hostport, <<"/">>, Q_schema)
U_aurora_iam == Uri("aurorapostgresql", N_nopw, <<"/">>, Q_iam)

Init ==
  InitWith({Cfg(TRUE, u, h, Modules, TRUE, e) :
              u \in {U_sqlite, U_postgres_schema, U_mysql, U_aurora_iam},
              h \in Hybrids, e \in Envs}
           \cup {Cfg(TRUE, U_postgres_schema, h, Modules \ {"psycopg2"}, TRUE, e) :
                   h \in Hybrids, e \in Envs})

Next ==
  \/ Construct
  \/ \E raw_sql \in Statements, outcome \in BasicOutcomes :
        SqlExec(raw_sql, NoParamList, NoKwargs, outcome)
  \/ Close

Spec == Init /\ [][Next]_vars

\* Construction alone: every connection string with every module installed,
\* and the connection strings of the usual shapes with modules missing.
Connections == AllUris \cup {None, <<>>}

KeyUris ==
  {Uri(sc, n, <<"/">>, q) : sc \in Schemes, n \in {N_full, N_nopw, N_dsn}, q \in Queries}

InitConstruct ==
  InitWith({Cfg(TRUE, u, <<>>, Modules, TRUE, e) : u \in Connections, e \in Envs}
           \cup {Cfg(TRUE, u, <<>>, inst, TRUE, e) :
                   u \in KeyUris, inst \in InstalledSets, e \in Envs}
           \cup {Cfg(TRUE, u, <<>>, inst, FALSE, AllOk) :
                   u \in KeyUris, inst \in InstalledSets}
           \cup {Cfg(TRUE, u, h, Modules, TRUE, AllOk) : u \in KeyUris, h \in Hybrids}
           \cup {Cfg(FALSE, None, <<>>, Modules, TRUE, AllOk)})

NextConstruct == Construct

SpecConstruct == InitConstruct /\ [][NextConstruct]_vars

\* One statement, every answer of the database, every fetch operation.
Outcomes == {ExecFails, NonQuery} \cup ResultSets

InitFetch ==
  InitWith({Cfg(TRUE, u, <<>>, Modules, TRUE, AllOk) : u \in {U_sqlite, U_postgres}})

NextFetch ==
  \/ Construct
  \/ \E outcome \in Outcomes : SqlExec(S_cust, NoParamList, NoKwargs, outcome)
  \/ FetchNext
  \/ FetchRow
  \/ FetchAllRows
  \/ FetchAllDicts
  \/ \E n \in 1..MaxRows : FetchManyRows(n)
  \/ \E n \in 1..MaxRows : FetchManyDicts(n)

SpecFetch == InitFetch /\ [][NextFetch]_vars

\* NumProcs processes, each in close() on an instance of its own, sharing
\* the class-level flag and lock.
NoticeCfgs ==
  {Cfg(TRUE, U_aurora_iam, <<>>, Modules, TRUE, AllOk),
   Cfg(TRUE, U_aurora_iam, <<H("CUSTOMERS", "NODE2")>>, Modules, TRUE, AllOk),
   Cfg(TRUE, U_postgres, <<>>, Modules, TRUE, AllOk)}

InitNotice ==
  /\ cfg = Cfg(TRUE, U_aurora_iam, <<>>, Modules, TRUE, AllOk)
  /\ phase = "new"
  /\ self = NewSelf
  /\ cursor_data = NoCursorData
  /\ cursor = NoCursor
  /\ last = NoLast
  /\ procs \in [1..NumProcs -> {Proc("start", FALSE, construct(c).self, <<>>, "none") :
                                  c \in NoticeCfgs}]
  /\ shared = Shared(FALSE, 0, 0)

NextNotice == \E p \in 1..NumProcs : CloseStep(p)

SpecNotice == InitNotice /\ [][NextNotice]_vars

\* The same closes under a scheduler that lets every process that can take
\* a step take one in the end.
SpecNoticeFair == SpecNotice /\ \A p \in 1..NumProcs : WF_vars(CloseStep(p))

\* The same closes, with callers of the flag's setter in between.
NextFlag ==
  \/ \E p \in 1..NumProcs : CloseStep(p)
  \/ \E value \in BOOLEAN : SetFlag(value)

SpecFlag == InitNotice /\ [][NextFlag]_vars

\* Statements with parameters and cursor settings, on an open and on a
\* closed instance.
InitParams ==
  InitWith({Cfg(TRUE, u, <<>>, Modules, TRUE, AllOk) : u \in {U_sqlite, U_postgres}})

NextParams ==
  \/ Construct
  \/ \E raw_sql \in {S_one, S_cust}, param_list \in ParamLists, kwargs \in KwargsSet,
        outcome \in BasicOutcomes :
        SqlExec(raw_sql, param_list, kwargs, outcome)
  \/ Close

SpecParams == InitParams /\ [][NextParams]_vars

\* ----------------------------------------------------------------- claims
Executes(native) == \E i \in 1..Len(native) : native[i].call = "execute"

\* The nodes the tables after FROM/JOIN of a statement resolve to, a table
\* that is not in the table map resolving to MAIN.
ResolvedNodes(raw_sql) ==
  LET t == tables_in_query(raw_sql)
  IN IF t.err # "none" THEN {}
     ELSE {node_of_table(self.tables_by_connection, t.tables[i]) : i \in 1..Len(t.tables)}

\* C1: on an instance with a HYBRID table map, sql_exec of a statement whose
\* tables resolve to more than one node raises the "cannot query across
\* nodes" error and executes nothing on any connection.
C1_MultiNodeRejected ==
  (/\ last.op = "sql_exec"
   /\ DOMAIN self.tables_by_connection # {}
   /\ Cardinality(ResolvedNodes(last.raw)) > 1)
  => (/\ last.err = "Exception: Cannot query across nodes"
      /\ ~Executes(last.native)
      /\ last.native = <<>>)

C1_Witness ==
  /\ last.op = "sql_exec"
  /\ last.raw = S_join
  /\ ResolvedNodes(last.raw) = {"MAIN", "NODE2"}
  /\ last.err = "Exception: Cannot query across nodes"

\* C2: however the steps of the processes in close() interleave, the notice
\* is printed at most once.
C2_NoticeAtMostOnce == shared.printed <= 1

C2_Witness ==
  /\ shared.printed = 1
  /\ \A p \in 1..NumProcs : procs[p].pc = "done" /\ ~procs[p].seen
  /\ \A p \in 1..NumProcs : is_aurora_iam(procs[p].self.connections["MAIN"])

\* C3: a sql_exec whose raw text is a key of the statement cache uses the
\* cached SQL and node and calls neither sql_prep nor set_node.
C3_CacheHitNoRouting ==
  (last.op = "sql_exec" /\ last.hit)
  => (/\ last.prep = 0
      /\ last.sql = self.statement_cache[last.raw].sql
      /\ last.node = self.statement_cache[last.raw].node)

C3_Witness ==
  /\ last.op = "sql_exec"
  /\ last.hit
  /\ last.err = "none"
  /\ last.sql # last.raw
  /\ Executes(last.native)

\* A connection string of the documented form
\* <dialect>://user:password@host:port:database/ for the server dialects,
\* <dialect>://user:password@host:port/?schema=<database> for MYSQL and
\* sqlite3://na:na@/<file> for SQLITE3, with any of the query strings.
WellFormed(uri) ==
  \E sc \in Schemes, q \in Queries :
    \/ /\ upper(<<sc>>) \in {<<"POSTGRESQL">>, <<"AURORAPOSTGRESQL">>, <<"MSSQL">>, <<"OCI">>}
       /\ uri \in {Uri(sc, N_full, <<"/">>, q), Uri(sc, N_quoted, <<"/">>, q)}
    \/ /\ upper(<<sc>>) = <<"MYSQL">>
       /\ q \in {Q_schema, Q_mixed}
       /\ uri = Uri(sc, N_hostport, <<"/">>, q)
    \/ /\ upper(<<sc>>) = <<"SQLITE3">>
       /\ uri = Uri(sc, N_file, <<"/", "g2.db">>, q)

ReservedKeys == {<<"TABLE">>, <<"SCHEMA">>, <<"IAM_AUTH">>, <<"REGION">>}

\* C4: dburi_parse of a well-formed connection string of any of the six
\* dialects succeeds, the dsn of the descriptor is not empty and no reserved
\* key, in any letter case, is left in query_params.  Construction reaches
\* dburi_parse when the configuration and the imports are accepted.
C4_WellFormedUriParses ==
  (/\ last.op = "__init__"
   /\ cfg.has_sql
   /\ WellFormed(cfg.connection)
   /\ last.stage \notin {"config", "imports"})
  => LET c == self.connections["MAIN"]
     IN /\ last.stage # "dburi_parse"
        /\ "dsn" \in c.has /\ ~Falsy(c.dsn)
        /\ \A i \in 1..Len(c.query_params) : upper(c.query_params[i].k) \notin ReservedKeys

ConnectCalls(native) ==
  {native[i].call : i \in {j \in 1..Len(native) :
                             native[j].call \notin {"execute", "cursor()", "cursor(name)"}}}

\* C5: construction from an MSSQL connection string connects with the
\* native MSSQL connector exactly when the connection string has more than
\* three colon-delimited segments, and with ODBC otherwise.
C5_MssqlDriverBySegments ==
  (/\ last.op = "__init__"
   /\ "dbtype" \in self.connections["MAIN"].has
   /\ self.connections["MAIN"].dbtype = <<"MSSQL">>
   /\ ConnectCalls(last.native) # {})
  => ConnectCalls(last.native) =
       IF connection_string_len(cfg.connection) > 3
       THEN {"connect:mssql"} ELSE {"connect:pyodbc"}

\* C6: construction from a SQLITE3 connection string whose path names no
\* existing file fails with the connect error, with no native connect call
\* and no statement executed.  (An empty path is left out: it names no file
\* at all and is refused as a missing DSN.)
C6_SqliteMissingFileFailsFast ==
  (/\ last.op = "__init__"
   /\ cfg.has_sql
   /\ last.stage \notin {"config", "imports"}
   /\ upper(self.main_db_type) = <<"SQLITE3">>
   /\ ~Falsy(urlparse(cfg.connection).path)
   /\ ~cfg.file_exists)
  => /\ phase = "failed"
     /\ last.err = "Exception: connect"
     /\ last.native = <<>>

NoFromJoin(raw_sql) ==
  \A i \in 1..Len(words(raw_sql)) : upper(words(raw_sql)[i]) \notin {<<"FROM">>, <<"JOIN">>}

RoutingErrors == {"Exception: Could not determine tables", "Exception: Cannot query across nodes"}

\* C7, as the specification states it: on every instance, with or without a
\* HYBRID map, routing a statement with no FROM and no JOIN word raises a
\* routing error.
C7_NoTableAlwaysFails ==
  (last.op = "sql_exec" /\ ~last.hit /\ NoFromJoin(last.raw))
  => last.err \in RoutingErrors

\* C7, amended: on an instance whose node map holds more than one node,
\* routing a statement that has words but no FROM and no JOIN raises the
\* "could not determine tables" error and nothing is executed (a statement
\* with no word raises IndexError); on an instance with the single node
\* MAIN the statement is routed to MAIN.
C7_NoTableFailsOnMultiNode ==
  (last.op = "sql_exec" /\ ~last.hit /\ NoFromJoin(last.raw))
  => IF Cardinality(DOMAIN self.connections) > 1
     THEN /\ last.native = <<>>
          /\ last.err = IF words(last.raw) = <<>> THEN "IndexError"
                        ELSE "Exception: Could not determine tables"
     ELSE last.node = "MAIN" /\ last.err \notin RoutingErrors \cup {"IndexError"}

C7_Witness ==
  /\ last.op = "sql_exec"
  /\ last.raw = S_one
  /\ Cardinality(DOMAIN self.connections) > 1
  /\ last.err = "Exception: Could not determine tables"

\* C8: fetch_next and fetch_row on a handle that carries no column headers
\* raise the "previous SQL was not a query" error, make no call on the native
\* cursor and leave it where it was.
C8_FetchWithoutHeadersRaises ==
  (last.op \in {"fetch_next", "fetch_row"} /\ ~cursor_data.has_headers)
  => /\ last.err = "Exception: Previous SQL was not a query"
     /\ last.native = <<>>
     /\ cursor.pos = last.pos

C8_Witness ==
  /\ last.op = "fetch_next"
  /\ cursor_data.valid
  /\ ~cursor_data.has_headers
  /\ last.err = "Exception: Previous SQL was not a query"

\* The mapping of a row the specification describes: one entry per column,
\* in column order, every binary value decoded.
Decoded(v) == IF v.t \in {"bytearray", "bytes"} THEN [v EXCEPT !.t = "str"] ELSE v

MappingPerColumn(headers, row) ==
  [c \in 1..Len(headers) |-> [k |-> headers[c], v |-> Decoded(row[c])]]

\* C9, as the specification states it: fetch_all_dicts on a fresh handle
\* over R rows of C columns returns R mappings in row order, each of the C
\* uppercased column names in column order to the row's values, every
\* byte-array or binary value decoded and every other value unchanged.
C9_AllDictsPerColumnBinaryDecoded ==
  (last.op = "fetch_all_dicts" /\ cursor_data.has_headers /\ last.pos = 0)
  => /\ last.err = "none"
     /\ last.ret = [r \in 1..Len(cursor.rows) |->
                      MappingPerColumn(cursor_data.COLUMN_HEADERS, cursor.rows[r])]

\* The mapping a row becomes: one entry per distinct column name, in the
\* order of first occurrence, with the value of the last column of that
\* name; a value of type bytearray decoded, any other value as it is.
FirstColumns(headers) ==
  SelectSeq([c \in 1..Len(headers) |-> c],
            LAMBDA c : \A d \in 1..(c - 1) : headers[d] # headers[c])

LastColumn(headers, c) ==
  CHOOSE d \in 1..Len(headers) :
    headers[d] = headers[c] /\ \A e \in (d + 1)..Len(headers) : headers[e] # headers[c]

MappingPerName(headers, row) ==
  LET first == FirstColumns(headers)
  IN [i \in 1..Len(first) |->
        LET v == row[LastColumn(headers, first[i])]
        IN [k |-> headers[first[i]],
            v |-> IF v.t = "bytearray" THEN [t |-> "str", v |-> v.v, ok |-> v.ok] ELSE v]]

Decodable(rows) ==
  \A r \in 1..Len(rows) : \A c \in 1..Len(rows[r]) :
    rows[r][c].t = "bytearray" => rows[r][c].ok

\* C9, amended: fetch_all_dicts on a fresh handle over R rows of C columns
\* whose bytearray values are valid UTF-8 returns R mappings in row order,
\* each of the distinct uppercased column names, in order of first
\* occurrence, to the row's value in the last column of that name, a value
\* of type bytearray decoded and every other value, one of type bytes
\* included, unchanged; a bytearray that is not UTF-8 makes the call raise
\* UnicodeDecodeError.
C9_AllDictsPerNameBytearrayDecoded ==
  (last.op = "fetch_all_dicts" /\ cursor_data.has_headers /\ last.pos = 0)
  => IF Decodable(cursor.rows)
     THEN /\ last.err = "none"
          /\ last.ret = [r \in 1..Len(cursor.rows) |->
                           MappingPerName(cursor_data.COLUMN_HEADERS, cursor.rows[r])]
     ELSE last.err = "UnicodeDecodeError"

C9_Witness ==
  /\ last.op = "fetch_all_dicts"
  /\ last.pos = 0
  /\ last.err = "none"
  /\ Len(cursor.rows) = 2
  /\ Len(cursor_data.COLUMN_HEADERS) = 2
  /\ Len(last.ret) = 2
  /\ \E r \in 1..2 : \E c \in 1..2 :
       cursor.rows[r][c].t = "bytearray" /\ last.ret[r][c].v.t = "str"

\* C10: close() of a constructed instance, one configured with HYBRID nodes
\* included, closes the connection of every node of the node map and
\* returns.
C10_CloseClosesEveryNode ==
  last.op = "close"
  => /\ last.err = "none"
     /\ \A n \in DOMAIN self.connections :
          "dbo" \in self.connections[n].has /\ self.connections[n].dbo.state = "closed"

AuroraIamNodes(s) == {n \in DOMAIN s.connections : is_aurora_iam(s.connections[n])}

CallsOf(call, nodes) == [i \in 1..Len(nodes) |-> Native(call, nodes[i], <<>>, NoParams)]

\* C11: close() of an instance with an Aurora/IAM node closes the connection
\* of every node, then runs the notice protocol, then calls
\* release_resources once on each Aurora/IAM node and on no other node, and
\* returns.
C11_CloseThenNoticeThenRelease ==
  (last.op = "close" /\ AuroraIamNodes(self) # {})
  => /\ last.err = "none"
     /\ shared.flag
     /\ last.native =
          CallsOf("close", self.order)
          \o CallsOf("release_resources",
                     SelectSeq(self.order, LAMBDA n : n \in AuroraIamNodes(self)))

ImportsOf(c) ==
  imports(upper(self.main_db_type), c.connection, c.installed, c.print_import_messages)

\* C12: for POSTGRESQL, imports() tries psycopg2 first and pyodbc only when
\* psycopg2 did not load; it raises only when neither loads; connect() uses
\* psycopg2 whenever it loaded and pyodbc otherwise.
C12_PostgresNativeThenOdbc ==
  (/\ last.op = "__init__"
   /\ cfg.has_sql
   /\ last.stage # "config"
   /\ upper(self.main_db_type) = <<"POSTGRESQL">>)
  => /\ "psycopg2" \in ImportsOf(cfg).attempted
     /\ "pyodbc" \in ImportsOf(cfg).attempted <=> "psycopg2" \notin cfg.installed
     /\ ImportsOf(cfg).attempted \subseteq {"psycopg2", "pyodbc"}
     /\ last.stage = "imports" <=> cfg.installed \cap {"psycopg2", "pyodbc"} = {}
     /\ self.imported = ImportsOf(cfg).attempted \cap cfg.installed
     /\ ConnectCalls(last.native) \subseteq
          {IF "psycopg2" \in cfg.installed THEN "connect:psycopg2" ELSE "connect:pyodbc"}
     /\ last.stage \in {"connect", "done"} =>
          /\ ConnectCalls(last.native) # {}
          /\ last.detail # "driver object missing"

C12_Witness ==
  /\ last.op = "__init__"
  /\ upper(self.main_db_type) = <<"POSTGRESQL">>
  /\ "psycopg2" \notin cfg.installed
  /\ phase = "ready"
  /\ self.imported = {"pyodbc"}
  /\ ConnectCalls(last.native) = {"connect:pyodbc"}

\* C13: when imports() raises, the failure reported to the caller names, with
\* its import error, every module whose import was tried and failed, and no
\* module whose import was not tried.
C13_FailureNamesAttempted ==
  (last.op = "__init__" /\ last.stage = "imports")
  => /\ ImportsOf(cfg).attempted \ cfg.installed \subseteq ImportsOf(cfg).reported
     /\ ImportsOf(cfg).reported \subseteq ImportsOf(cfg).attempted

\* The placeholders a dialect wants: %s on the native Postgres drivers, :k
\* on OCI, ? everywhere else.
RewrittenFor(dbtype, native_driver, sql) ==
  IF dbtype \in {<<"POSTGRESQL">>, <<"AURORAPOSTGRESQL">>} /\ native_driver
  THEN replace_all(sql, "%s")
  ELSE IF dbtype = <<"OCI">> THEN replace_numbered(sql, 0)
  ELSE sql

NativeDriver(s) ==
  \/ upper(s.main_db_type) = <<"AURORAPOSTGRESQL">>
  \/ "psycopg2" \in s.imported

\* C14: whenever sql_exec resolves the node of a statement, the SQL it goes
\* on with is the statement rewritten for the dialect of that node: %s for
\* a Postgres-family node on the native driver, :1, :2, ... for an OCI
\* node, the text unchanged for every other dialect.
C14_RewriteByTargetDialect ==
  (last.op = "sql_exec" /\ set_node(self, last.raw).err = "none")
  => /\ "dbtype" \in self.connections[set_node(self, last.raw).node].has
     /\ last.err \in {"none", "Exception: sqlerror"}
     /\ last.sql = RewrittenFor(self.connections[set_node(self, last.raw).node].dbtype,
                                NativeDriver(self), last.raw)

\* A node owns a live handle: its dict has a "dbo" and the handle is open.
OwnsLiveHandle(s, n) ==
  "dbo" \in s.connections[n].has /\ s.connections[n].dbo.state = "open"

\* C15: between a successful construction and close(), every node of the
\* node map, MAIN and every node the HYBRID configuration names, owns a
\* live connection handle.
C15_EveryNodeOwnsLiveHandle ==
  phase = "ready" => \A n \in DOMAIN self.connections : OwnsLiveHandle(self, n)

\* The configuration errors __init__ raises on purpose.
ConfigErrors ==
  {"LookupError: connection settings missing", "LookupError: Unsupported database type"}

\* The configuration has no SQL.CONNECTION, or the text before "://" is not
\* one of the supported dialects.
LacksConnection(c) == ~c.has_sql \/ Falsy(c.connection)
UnsupportedDialect(c) ==
  /\ ~LacksConnection(c)
  /\ Cardinality(SchemeSepIdx(c.connection)) <= 1
  /\ \A i \in SchemeSepIdx(c.connection) :
       upper(SubSeq(c.connection, 1, i - 1)) \notin SUPPORTED_DBS

\* Nothing was probed, parsed or connected.
NothingStarted ==
  /\ last.stage = "config"
  /\ last.native = <<>>
  /\ self.imported = {}
  /\ self.connections["MAIN"].has = {}

\* C16: a construction whose configuration has no SQL section, or no or an
\* empty CONNECTION, or a dialect outside the supported ones, fails with a
\* configuration error, before any driver is imported, any URI parsed and
\* any connection made.
C16_ConfigErrorBeforeAnything ==
  (last.op = "__init__" /\ (LacksConnection(cfg) \/ UnsupportedDialect(cfg)))
  => /\ phase = "failed"
     /\ last.err \in ConfigErrors
     /\ NothingStarted

\* The connection string is a SQLITE3 URI with a schema query parameter.
SqliteWithSchema(c) ==
  /\ c.has_sql /\ ~Falsy(c.connection)
  /\ uri_dict_of(c.connection).DBTYPE = <<"SQLITE3">>
  /\ ~Falsy(uri_dict_of(c.connection).SCHEMA)

SchemaRefused == "Exception: SQLITE3 doesn't support schema URI argument"

\* C17 as stated: a SQLITE3 URI with a schema parameter is refused by
\* dburi_parse, and no descriptor is made of it.
C17_SqliteSchemaFailsInParser ==
  (last.op = "__init__" /\ SqliteWithSchema(cfg) /\ last.stage \notin {"config", "imports"})
  => /\ last.stage = "dburi_parse"
     /\ "schema" \notin self.connections["MAIN"].has

\* C17: a construction from a SQLITE3 URI with a schema parameter never
\* succeeds, but the parser does not refuse the schema: dburi_parse fails
\* only for the reasons it fails without one, and otherwise yields a
\* descriptor that carries the schema; connect() refuses it, after the
\* native connect and the PRAGMAs, and the handle it opened stays open.
C17_SqliteSchemaFailsInConnect ==
  (last.op = "__init__" /\ SqliteWithSchema(cfg) /\ last.stage \notin {"config", "imports"})
  => /\ phase = "failed"
     /\ last.err # SchemaRefused => last.stage \in {"dburi_parse", "connect"}
     /\ last.stage = "dburi_parse"
          => last.err \in {"Exception: Missing database DSN", "TypeError: unquote(None)"}
     /\ last.stage = "connect"
          => /\ "schema" \in self.connections["MAIN"].has
             /\ self.connections["MAIN"].schema = uri_dict_of(cfg.connection).SCHEMA
     /\ last.err = SchemaRefused
          <=> /\ last.stage = "connect"
              /\ cfg.file_exists /\ cfg.connect_ok /\ cfg.exec_ok
     /\ last.err = SchemaRefused
          => /\ ConnectCalls(last.native) = {"connect:sqlite3"}
             /\ Len(last.native) = 4
             /\ OwnsLiveHandle(self, "MAIN")

C17_Witness ==
  /\ last.op = "__init__" /\ SqliteWithSchema(cfg)
  /\ last.stage = "connect" /\ last.err = SchemaRefused
  /\ OwnsLiveHandle(self, "MAIN")

\* The netloc of the connection string, split on ":".
NetlocSplit(c) == split(urlparse(c.connection).netloc, ":")

PostgresFamily(c) ==
  /\ c.has_sql /\ ~Falsy(c.connection)
  /\ uri_dict_of(c.connection).DBTYPE \in {<<"AURORAPOSTGRESQL">>, <<"POSTGRESQL">>}

\* C18: for an AURORAPOSTGRESQL or POSTGRESQL URI that reaches the parser,
\* a netloc of 3 segments gives a descriptor with no password, dsn the 3rd
\* segment and port the 2nd; a netloc of 4 segments gives dsn the 4th and
\* port the 3rd; a netloc of fewer than 3 segments is a parse error.
C18_PostgresNetlocSegments ==
  (last.op = "__init__" /\ PostgresFamily(cfg) /\ last.stage \notin {"config", "imports"})
  => /\ (Len(NetlocSplit(cfg)) = 3 /\ last.stage # "dburi_parse")
          => /\ self.connections["MAIN"].password = None
             /\ self.connections["MAIN"].dsn = NetlocSplit(cfg)[3]
             /\ self.connections["MAIN"].port = NetlocSplit(cfg)[2]
     /\ (Len(NetlocSplit(cfg)) = 4 /\ last.stage # "dburi_parse")
          => /\ self.connections["MAIN"].dsn = NetlocSplit(cfg)[4]
             /\ self.connections["MAIN"].port = NetlocSplit(cfg)[3]
     /\ Len(NetlocSplit(cfg)) < 3
          => /\ last.stage = "dburi_parse"
             /\ last.err = "Exception: Failed to parse connection URI"

\* Process p takes a step of close().
Steps(p) == procs[p].pc # procs'[p].pc

\* C19 as stated: the first read of the flag in close() is made by a
\* process that does not hold the mutex.
C19_FirstReadWithoutMutex ==
  [][\A p \in 1..NumProcs :
       (Steps(p) /\ procs[p].pc = "get_flag_read") => shared.lock # p]_vars

\* C19: the notice protocol of close() is a double check in which both
\* reads are made under the mutex: the first read is made by the getter
\* while it holds the mutex; the mutex is taken again only if that read
\* gave false; the flag is read again under the mutex; and only if it is
\* still false is it set to true and the notice printed, both while the
\* mutex is held.
C19_DoubleCheckUnderMutex ==
  [][\A p \in 1..NumProcs :
       Steps(p) =>
         /\ procs[p].pc = "get_flag_read"
              => shared.lock = p /\ procs'[p].seen = shared.flag
         /\ procs'[p].pc = "lock_acquire"
              => procs[p].pc = "get_flag_release" /\ ~procs[p].seen
         /\ procs[p].pc = "lock_acquire"
              => shared.lock = 0 /\ shared'.lock = p
         /\ procs[p].pc = "recheck"
              => /\ shared.lock = p
                 /\ procs'[p].pc = "set_flag" <=> ~shared.flag
         /\ shared'.flag # shared.flag
              => shared.lock = p /\ procs[p].pc = "set_flag" /\ shared'.flag
         /\ shared'.printed # shared.printed
              => shared.lock = p /\ procs[p].pc = "print" /\ shared.flag]_vars

C19_Witness ==
  \E p, q \in 1..NumProcs :
    /\ p # q
    /\ procs[p].pc = "print" /\ shared.lock = p /\ shared.flag
    /\ procs[q].pc = "lock_acquire" /\ ~procs[q].seen

\* A call of the setter with this value has just been made.
SetterCalled(value) ==
  /\ procs' = procs
  /\ last'.op = "set_aurora_clean_up_msg_flag"
  /\ last'.param_list.val = <<IF value THEN 1 ELSE 0>>

\* C20 as stated: the flag never goes from true back to false, and every
\* write that changes it is made while the mutex is held.
C20_FlagMonotonicUnderMutex ==
  [][/\ shared.flag => shared'.flag
     /\ shared'.flag # shared.flag => shared.lock # 0]_vars

\* C20: close() writes the flag only from false to true and only while it
\* holds the mutex; every other change of the flag is a call of
\* set_aurora_clean_up_msg_flag(value), which stores the value it is given,
\* false included, and neither takes nor waits for the mutex.
C20_OnlySetterResetsFlag ==
  [][/\ \A p \in 1..NumProcs :
          (Steps(p) /\ shared'.flag # shared.flag)
            => shared.lock = p /\ ~shared.flag /\ shared'.flag
     /\ (shared' # shared /\ procs' = procs)
          => /\ \E value \in BOOLEAN : SetterCalled(value) /\ shared'.flag = value
             /\ shared'.lock = shared.lock
             /\ shared'.printed = shared.printed]_vars

\* The flag is false again while a process that found or made it true is
\* still holding the mutex.
C20_Witness ==
  \E p \in 1..NumProcs :
    /\ procs[p].pc = "unlock" /\ shared.lock = p
    /\ ~shared.flag /\ shared.printed >= 1
    /\ last.op = "set_aurora_clean_up_msg_flag" /\ last.param_list.val = <<0>>

\* The native execute calls of the last operation.
ExecuteCalls(native) == SelectSeq(native, LAMBDA c : c.call = "execute")

\* C21: whenever sql_exec is given a scalar parameter and reaches the
\* native execute, the execute is made with that scalar wrapped as a
\* one-element sequence, whatever the truth value of the scalar.
C21_ScalarAlwaysWrapped ==
  (last.op = "sql_exec" /\ last.param_list.kind = "scalar"
     /\ ExecuteCalls(last.native) # <<>>)
  => \A i \in 1..Len(ExecuteCalls(last.native)) :
       ExecuteCalls(last.native)[i].params = ListParam(last.param_list.val)

\* The node the HYBRID configuration gives a table, letter case set aside;
\* MAIN for a table the configuration does not name.
ConfiguredNode(hybrid, table) ==
  IF \E i \in 1..Len(hybrid) : upper(hybrid[i].table) = upper(table)
  THEN hybrid[CHOOSE i \in 1..Len(hybrid) :
                /\ upper(hybrid[i].table) = upper(table)
                /\ \A j \in (i + 1)..Len(hybrid) : upper(hybrid[j].table) # upper(table)].node
  ELSE "MAIN"

\* C22: a statement that sql_exec routes goes to the node the HYBRID
\* configuration gives its table, in whatever letter case the
\* configuration and the statement write the table's name.
C22_RoutingIgnoresCase ==
  (/\ last.op = "sql_exec"
   /\ last.err \in {"none", "Exception: sqlerror"}
   /\ tables_in_query(last.raw).err = "none"
   /\ tables_in_query(last.raw).tables # <<>>)
  => last.node = ConfiguredNode(cfg.hybrid, tables_in_query(last.raw).tables[1])

\* The SQL that sql_prep makes of a statement on this instance: the
\* rewrite is decided by the dialect of MAIN.
RewrittenOnMain(s, raw_sql) ==
  RewrittenFor(s.connections["MAIN"].dbtype, NativeDriver(s), raw_sql)

CursorCalls(native) ==
  SelectSeq(native, LAMBDA c : c.call \in {"cursor()", "cursor(name)"})

\* C23: a sql_exec whose routing succeeded and whose cursor or native
\* execute fails raises a statement error that carries the rewritten SQL;
\* it asks for a cursor once and executes at most once, never after a
\* cursor that failed; and it leaves the caller no new cursor handle.
C23_FailureCarriesRewrittenSql ==
  /\ [](last.op = "sql_exec"
        => /\ Len(CursorCalls(last.native)) <= 1
           /\ Len(ExecuteCalls(last.native)) <= 1
           /\ last.err = "Exception: sqlerror"
                => /\ last.err_sql = RewrittenOnMain(self, last.raw)
                   /\ last.raw \in DOMAIN self.statement_cache
                   /\ last.err_sql = self.statement_cache[last.raw].sql
                   /\ ~OwnsLiveHandle(self, last.node) => ExecuteCalls(last.native) = <<>>
           /\ last.err = "none"
                => /\ OwnsLiveHandle(self, last.node)
                   /\ Len(ExecuteCalls(last.native)) = 1)
  /\ [][(last'.op = "sql_exec" /\ last'.err # "none")
          => cursor_data' = cursor_data /\ cursor' = cursor]_vars

C23_Witness ==
  /\ last.op = "sql_exec" /\ last.err = "Exception: sqlerror"
  /\ last.err_sql # last.raw
  /\ Len(ExecuteCalls(last.native)) = 1
  /\ cursor_data.valid

\* C24: when imports() succeeded and the URI parsed, the driver whose
\* connect() is invoked is one imports() loaded, and the decisions of
\* imports() from the connection string (Aurora: IAM or password; MSSQL:
\* TCP or DSN) are the decisions of connect() from the descriptor.
C24_ConnectUsesImportedDriver ==
  (last.op = "__init__" /\ last.stage \in {"connect", "done"})
  => /\ driver_needs(driver_of(self, "MAIN")) \subseteq self.imported
     /\ last.detail # "driver object missing"
     /\ self.connections["MAIN"].dbtype = <<"AURORAPOSTGRESQL">>
          => (has_iam_auth_true(cfg.connection)
                <=> driver_of(self, "MAIN") = "aws_wrapper")
     /\ self.connections["MAIN"].dbtype = <<"MSSQL">>
          => (connection_string_len(cfg.connection) > 3
                <=> driver_of(self, "MAIN") = "mssql")

\* The entry of the statement cache under this key is what sql_prep makes
\* of the key on the instance as it is now.
Coherent(s, raw_sql) ==
  /\ sql_prep(s, raw_sql).err = "none"
  /\ s.statement_cache[raw_sql] =
       [sql |-> sql_prep(s, raw_sql).sql, node |-> sql_prep(s, raw_sql).node]

\* C25: on a constructed instance every entry of the statement cache,
\* those of the schema statements of construction included, is the
\* rewritten SQL and the node that routing its key gives now.
C25_CacheCoherent ==
  phase \in {"ready", "closed"}
  => \A raw_sql \in DOMAIN self.statement_cache : Coherent(self, raw_sql)

\* C26: a sql_exec whose routing fails leaves the statement cache as it
\* was; a sql_exec whose routing succeeds adds at most the entry of its
\* own raw SQL; no operation removes or changes an entry.
C26_CacheOnlyGrowsByOwnKey ==
  [][/\ \A k \in DOMAIN self.statement_cache :
          /\ k \in DOMAIN self'.statement_cache
          /\ self'.statement_cache[k] = self.statement_cache[k]
     /\ (last'.op = "sql_exec" /\ last'.err \notin {"none", "Exception: sqlerror"})
          => self'.statement_cache = self.statement_cache
     /\ last'.op = "sql_exec"
          => DOMAIN self'.statement_cache \subseteq DOMAIN self.statement_cache \cup {last'.raw}
     /\ last'.op \notin {"sql_exec", "__init__"}
          => self'.statement_cache = self.statement_cache]_vars

C26_Witness ==
  /\ last.op = "sql_exec" /\ last.err = "Exception: Cannot query across nodes"
  /\ last.raw \notin DOMAIN self.statement_cache
  /\ Cardinality(DOMAIN self.statement_cache) >= 2

\* C27: after a construction that failed, at whatever step, no connection
\* that it opened is open.
C27_FailedConstructionLeavesNothingOpen ==
  (last.op = "__init__" /\ phase = "failed")
  => \A n \in DOMAIN self.connections : ~OwnsLiveHandle(self, n)

\* Process p has called release_resources on its Aurora/IAM node.
Released(p) ==
  /\ procs[p].pc = "done"
  /\ \E i \in 1..Len(procs[p].native) : procs[p].native[i].call = "release_resources"

\* C28: with the processes in close() on Aurora/IAM instances and a fair
\* scheduler, a held mutex is released in the end, no process asks for the
\* mutex while it holds it, and every process gets through the notice
\* protocol to its release_resources.
C28_NoticeTerminates ==
  /\ [](\A p \in 1..NumProcs :
          procs[p].pc \in {"get_flag_acquire", "lock_acquire"} => shared.lock # p)
  /\ (shared.lock # 0) ~> (shared.lock = 0)
  /\ \A p \in 1..NumProcs :
       is_aurora_iam(procs[p].self.connections["MAIN"]) => <>Released(p)

\* C29: every driver call of a sql_exec is made on the connection of the
\* node that routing gave, or that the cache holds for the raw SQL; a
\* statement routed to another node than MAIN makes no call on MAIN; and
\* when the node has no live connection the call fails and executes
\* nothing.
C29_ExecutesOnRoutedNode ==
  last.op = "sql_exec"
  => /\ \A i \in 1..Len(last.native) : last.native[i].node = last.node
     /\ last.err \in {"none", "Exception: sqlerror"}
          => /\ last.raw \in DOMAIN self.statement_cache
             /\ last.node = self.statement_cache[last.raw].node
             /\ ~last.hit => last.node = set_node(self, last.raw).node
             /\ ~OwnsLiveHandle(self, last.node)
                  => last.err = "Exception: sqlerror" /\ ExecuteCalls(last.native) = <<>>
     /\ last.err \notin {"none", "Exception: sqlerror"} => last.native = <<>>

C29_Witness ==
  /\ last.op = "sql_exec" /\ last.node = "NODE2"
  /\ OwnsLiveHandle(self, "MAIN")
  /\ last.err = "Exception: sqlerror" /\ last.native = <<>>

\* The handle as sql_exec returned it, and the place of the cursor after
\* n more rows from place pos.
Fresh(c) == [c EXCEPT !.pos = 0]
Advanced(c, pos, n) == IF pos + n < Len(c.rows) THEN pos + n ELSE Len(c.rows)

\* The rows a fetch of n rows from place pos hands out.
Batch(c, pos, n) == SubSeq(c.rows, pos + 1, Advanced(c, pos, n))

\* C30 as stated: over any result set, the k-th fetch_next on a handle
\* returns the k-th mapping of the list fetch_all_dicts returns on the
\* fresh handle, and nothing once the rows are used up; a
\* fetch_many_dicts(n) returns the next n mappings of that list.
C30_NextAndManyFollowAllDicts ==
  (last.op \in {"fetch_next", "fetch_many_dicts"} /\ cursor_data.has_headers)
  => /\ fetch_all_dicts(cursor_data, Fresh(cursor)).err = "none"
     /\ Len(fetch_all_dicts(cursor_data, Fresh(cursor)).ret) = Len(cursor.rows)
     /\ last.err = "none"
     /\ cursor.pos = Advanced(cursor, last.pos, IF last.op = "fetch_next" THEN 1 ELSE last.n)
     /\ last.ret = SubSeq(fetch_all_dicts(cursor_data, Fresh(cursor)).ret,
                          last.pos + 1, cursor.pos)

\* C30: over a result set whose bytearray values are valid UTF-8, the k-th
\* fetch_next returns the k-th mapping of the list fetch_all_dicts returns
\* on the fresh handle, and nothing once the rows are used up, and a
\* fetch_many_dicts(n) returns the next n mappings of that list.  Over any
\* result set, a call whose rows hold a bytearray that is not UTF-8 raises
\* UnicodeDecodeError and uses the rows up all the same, and any other
\* call returns the mappings of its rows.
C30_NextAndManyFollowAllDictsIfDecodable ==
  (last.op \in {"fetch_next", "fetch_many_dicts"} /\ cursor_data.has_headers)
  => /\ cursor.pos = Advanced(cursor, last.pos, IF last.op = "fetch_next" THEN 1 ELSE last.n)
     /\ IF Decodable(Batch(cursor, last.pos, cursor.pos - last.pos))
        THEN /\ last.err = "none"
             /\ last.ret = [i \in 1..(cursor.pos - last.pos) |->
                              MappingPerName(cursor_data.COLUMN_HEADERS,
                                             cursor.rows[last.pos + i])]
        ELSE last.err = "UnicodeDecodeError" /\ last.ret = <<>>
     /\ Decodable(cursor.rows)
          => /\ fetch_all_dicts(cursor_data, Fresh(cursor)).err = "none"
             /\ Len(fetch_all_dicts(cursor_data, Fresh(cursor)).ret) = Len(cursor.rows)
             /\ last.ret = SubSeq(fetch_all_dicts(cursor_data, Fresh(cursor)).ret,
                                  last.pos + 1, cursor.pos)
     /\ ~Decodable(cursor.rows)
          => fetch_all_dicts(cursor_data, Fresh(cursor)).err = "UnicodeDecodeError"

C30_Witness ==
  /\ last.op = "fetch_next" /\ last.err = "none"
  /\ Len(cursor.rows) = 2 /\ last.pos = 1 /\ cursor.pos = 2
  /\ Decodable(cursor.rows)
  /\ last.ret = <<fetch_all_dicts(cursor_data, Fresh(cursor)).ret[2]>>


====
